---- MODULE Spec2Model ----
(***************************************************************************)
(* The EEG analysis server of src/main.py: the UDP receive path            *)
(* (EEGUDPProtocol.datagram_received), the rolling sample buffer, the      *)
(* analysis pass (run_analysis) with its four classifiers, the results     *)
(* queue, and the WebSocket broadcaster with its subscribers.              *)
(* The receive loop of src/udp_client.py is a second program over its own  *)
(* variable (udp_client, ClientSpec).                                      *)
(*                                                                         *)
(* Numbers.  A float64 is an integer here; NaN is the one value outside    *)
(* the order.  Band powers are integers in units of 1e-13, so that the     *)
(* source's 1e-12 is EPSILON = 10.  A published percentage is an integer   *)
(* number of hundredths (round(x, 2)) and a published ratio an integer     *)
(* number of thousandths (round(x, 3)).                                    *)
(*                                                                         *)
(* Scale.  SAMPLING_RATE is 250 in the source.  The model runs at a lower  *)
(* rate; every window size is derived from the rate exactly as the source  *)
(* derives it, so the buffer holds BUFFER_DURATION_SEC seconds of samples. *)
(***************************************************************************)
EXTENDS Integers, Sequences, FiniteSets, TLC

\* ----------------------------------------------------------------- bounds
SAMPLING_RATE == 2
\* samples a single datagram carries at most
MaxPacketSamples == 3
\* samples the sender streams beyond one full buffer
ExtraSamples == 3
\* analysis passes a session is observed for
MaxAnalyses == 3
\* WebSocket connections that are ever opened
NumClients == 2
\* band powers tried on the ramps, in multiples of 1e-12
MaxLevel == 4
\* udp_client.py: samples per channel of one array (250 in the source)
SAMPLES_PER_CHANNEL == 1
\* udp_client.py: arrays collected before the loop stops (50 in the source)
MEASUREMENTS_TO_PLOT == 2
\* udp_client.py: iterations of the receive loop that are observed
MaxReads == 5
\* samples of a centred segment given to the blink detection
MaxSegment == 5
\* refractory distances tried, 1..MaxDistance
MaxDistance == 3
\* eeg_headset.py: calls made on the headset in a session
MaxCalls == 6
\* the largest finite float of the ramp normalisation, standing for
\* sys.float_info.max; at least 100, the largest percentage
MaxFloat == 1000

\* ------------------------------------------------------ program constants
CHANNELS == 4
BUFFER_DURATION_SEC == 5
ANALYSIS_INTERVAL_SEC == 1
TIREDNESS_WINDOW_SEC == 5
STRESS_WINDOW_SEC == 5
BLINK_WINDOW_SEC == 3
\* bytes of one float64 (np.frombuffer(data, dtype=np.float64))
ITEMSIZE == 8
\* float('nan'): never equal to a sample value, a power or a percentage
NaN == -1
\* 1e-12 in units of 1e-13
EPSILON == 10
\* placeholder_percentage = 50.0, in hundredths
PLACEHOLDER_PERCENTAGE == 5000

\* EEGUDPProtocol.__init__: the window sizes in samples
buffer_size == BUFFER_DURATION_SEC * SAMPLING_RATE
analysis_samples == ANALYSIS_INTERVAL_SEC * SAMPLING_RATE
tiredness_samples == TIREDNESS_WINDOW_SEC * SAMPLING_RATE
stress_samples == STRESS_WINDOW_SEC * SAMPLING_RATE
blink_window_samples == BLINK_WINDOW_SEC * SAMPLING_RATE

\* channel order of every classifier: ["Fp1", "Fp2", "O1", "O2"]
ch_names == <<"Fp1", "Fp2", "O1", "O2">>
Channels == 1..CHANNELS

ChannelIndex(name) == CHOOSE c \in Channels : ch_names[c] = name

\* --------------------------------------------------------------- helpers
IsNaN(x) == x = NaN

Min(a, b) == IF a <= b THEN a ELSE b

\* s[-n:] of a Python sequence, n >= 1
LastN(s, n) == SubSeq(s, Len(s) - Min(n, Len(s)) + 1, Len(s))

\* round-half-even of num/den (den > 0, num >= 0), as round() of a float
RoundHalfEven(num, den) ==
    LET q == num \div den
        r == num % den
    IN  IF 2 * r < den THEN q
        ELSE IF 2 * r > den THEN q + 1
        ELSE IF q % 2 = 0 THEN q ELSE q + 1


\* ---------------------------------------------------------------- sender
(* demo.py streams data_chunk.astype(np.float64).tobytes(): a (CHANNELS, S)  *)
(* matrix, row-major, channel 0's samples first.  Sample number t of the     *)
(* stream carries, on channel c, the value 10*t + c when the headset records *)
(* a signal and 0 when it records silence, so that every sample and every    *)
(* channel of a signal can be told apart.                                    *)
SampleValue(signal, c, t) == IF signal = "zero" THEN 0 ELSE 10 * t + c

\* the (CHANNELS, S) chunk of stream samples first+1 .. first+S; nanch is the
\* channel whose first sample is NaN, 0 for none
Chunk(signal, first, S, nanch) ==
    [c \in Channels |->
        [i \in 1..S |-> IF c = nanch /\ i = 1 THEN NaN
                        ELSE SampleValue(signal, c, first + i)]]

\* ndarray.tobytes() of a C-ordered (CHANNELS, S) matrix, as float64 values
tobytes(M, S) ==
    [k \in 1..(CHANNELS * S) |-> M[((k - 1) \div S) + 1][((k - 1) % S) + 1]]

\* A datagram: `vals` are its whole float64 values, `extra` the bytes left
\* over after the last whole value.
Datagram(vals, extra) == [vals |-> vals, extra |-> extra]

nbytes(packet) == ITEMSIZE * Len(packet.vals) + packet.extra

Pad(k) == [i \in 1..k |-> 0]

\* ------------------------------------------------- EEGUDPProtocol: buffer
\* mutant: a deque built without maxlen
DequeAppend_unbounded(buf, x) == Append(buf, x)

\* collections.deque(maxlen=buffer_size).append(x)
DequeAppend(buf, x) ==
    IF Len(buf) >= buffer_size THEN Tail(buf) \o <<x>> ELSE Append(buf, x)

\* mutant: the values are read sample by sample, as if the sender had
\* interleaved the channels
reshape_interleaved(vals, samples) ==
    [c \in Channels |-> [i \in 1..samples |-> vals[(i - 1) * CHANNELS + c]]]

\* numpy_1d.reshape(CHANNELS, samples)
reshape(vals, samples) ==
    [c \in Channels |-> [i \in 1..samples |-> vals[(c - 1) * samples + i]]]

\* reshaped[:, i]
Column(reshaped, i) == [c \in Channels |-> reshaped[c][i]]

\* mutant: the columns of a datagram are appended newest first
RECURSIVE AppendColumns_reversed(_, _, _, _)
AppendColumns_reversed(buf, reshaped, i, samples) ==
    IF i > samples THEN buf
    ELSE AppendColumns_reversed(DequeAppend(buf, Column(reshaped, samples - i + 1)),
                                reshaped, i + 1, samples)

\* for i in range(reshaped.shape[1]): self.data_buffer.append(reshaped[:, i])
RECURSIVE AppendColumns(_, _, _, _)
AppendColumns(buf, reshaped, i, samples) ==
    IF i > samples THEN buf
    ELSE AppendColumns(DequeAppend(buf, Column(reshaped, i)), reshaped, i + 1, samples)

\* np.array(self.data_buffer).T : channel-major copy of the buffer
np_buffer(buf) == [c \in Channels |-> [j \in 1..Len(buf) |-> buf[j][c]]]

\* np_buffer[:, -n:]
Trailing(M, n) == [c \in Channels |-> LastN(M[c], n)]


\* ------------------------------------------------------- float arithmetic
(* A float a classifier computes is an exact fraction <<num, den>> with      *)
(* den > 0, or NaN, the fraction with den = 0.  Every comparison with NaN    *)
(* is false, as in Python.                                                   *)
Frac(n, d) == <<n, d>>
NaNF == <<0, 0>>
IsNaNF(x) == x[2] = 0
LeqF(x, y) == ~IsNaNF(x) /\ ~IsNaNF(y) /\ x[1] * y[2] <= y[1] * x[2]
GeqF(x, y) == ~IsNaNF(x) /\ ~IsNaNF(y) /\ x[1] * y[2] >= y[1] * x[2]
SubF(x, y) == IF IsNaNF(x) \/ IsNaNF(y) THEN NaNF
              ELSE Frac(x[1] * y[2] - y[1] * x[2], x[2] * y[2])
\* x / y, for y > 0
DivF(x, y) == IF IsNaNF(x) \/ IsNaNF(y) THEN NaNF
              ELSE Frac(x[1] * y[2], x[2] * y[1])
\* mutant: the factor is dropped
TimesF_unit(x, k) == x
TimesF(x, k) == IF IsNaNF(x) THEN NaNF ELSE Frac(x[1] * k, x[2])

\* round(x, 2) * 100 and round(x, 3) * 1000, for x >= 0: an integer, or NaN
round(x, scale) == IF IsNaNF(x) THEN NaN ELSE RoundHalfEven(x[1] * scale, x[2])

\* a band power (an integer, or NaN) as a float
PowerF(p) == IF IsNaN(p) THEN NaNF ELSE Frac(p, 1)
\* alpha_power + theta_power
PlusPower(p, q) == IF IsNaN(p) \/ IsNaN(q) THEN NaN ELSE p + q

\* ------------------------------------------------------------ environment
(* What the session cannot choose: the signal the headset records, the band  *)
(* powers Welch's method finds in it (frontal channels for stress, occipital *)
(* channels for tiredness), whether the installed MNE still provides         *)
(* mne.time_frequency.psd_welch (it was removed in MNE 1.3), and whether its *)
(* Welch average over the segments is a plain mean or skips the segments     *)
(* that hold a NaN (nanmean).                                                *)
SpectrumA == [alpha |-> 20, theta |-> 10, beta |-> 5]
SpectrumB == [alpha |-> 20, theta |-> 20, beta |-> 20]
SpectrumC == [alpha |-> 30, theta |-> 40, beta |-> 10]
SpectrumD == [alpha |-> 10, theta |-> 0, beta |-> 40]
SpectrumE == [alpha |-> 5, theta |-> 25, beta |-> 25]
SpectrumF == [alpha |-> 30, theta |-> 10, beta |-> 25]

ZeroSpectrum == [alpha |-> 0, theta |-> 0, beta |-> 0]
NaNSpectrum == [alpha |-> NaN, theta |-> NaN, beta |-> NaN]

\* <<frontal, occipital>> spectra of the recorded signals tried
SpectraPairs ==
    { <<SpectrumA, SpectrumB>>, <<SpectrumB, SpectrumC>>, <<SpectrumC, SpectrumD>>,
      <<SpectrumD, SpectrumE>>, <<SpectrumE, SpectrumF>>, <<SpectrumF, SpectrumA>> }

Environments ==
    { [signal |-> "zero", front |-> ZeroSpectrum, occ |-> ZeroSpectrum, psd_welch |-> w,
       nanmean |-> FALSE] : w \in BOOLEAN }
    \cup
    { [signal |-> "sig", front |-> fo[1], occ |-> fo[2], psd_welch |-> TRUE,
       nanmean |-> FALSE] : fo \in SpectraPairs }
    \cup
    { [signal |-> "sig", front |-> SpectrumB, occ |-> SpectrumC, psd_welch |-> w,
       nanmean |-> w] : w \in BOOLEAN }

\* raw_chunk.pick_channels(channels)
pick_channels(data_chunk, channels) ==
    [k \in 1..Len(channels) |-> data_chunk[ChannelIndex(channels[k])]]

(* raw_chunk.filter(l_freq, h_freq, fir_design="firwin"): the FIR filter is   *)
(* applied by FFT convolution over the whole chunk, so that a channel with a *)
(* NaN sample is NaN throughout; the spectrum of the environment is that of  *)
(* the filtered signal.                                                      *)
filter(picked) ==
    [k \in DOMAIN picked |->
        IF \E j \in DOMAIN picked[k] : IsNaN(picked[k][j])
        THEN [j \in DOMAIN picked[k] |-> NaN]
        ELSE picked[k]]

(* psd_welch(n_fft=sfreq) followed by np.mean over the bins of each band and *)
(* over the channels.  Welch's estimate averages, over the segments of n_fft *)
(* samples, a sum of squares of a linear transform of the segment: a segment *)
(* that holds a NaN is NaN in every bin.  A plain mean over the segments     *)
(* makes a channel NaN when one segment is, nanmean when all are; the mean   *)
(* over the channels is NaN when a channel is.  Otherwise the estimate is 0  *)
(* for an all-zero chunk and the spectrum of the recorded signal for any     *)
(* other.                                                                    *)
band_powers(picked, spectrum, nanmean) ==
    LET segments(k) == 1..(Len(picked[k]) \div SAMPLING_RATE)
        dirty(k, g) == \E j \in ((g - 1) * SAMPLING_RATE + 1)..(g * SAMPLING_RATE) :
                           IsNaN(picked[k][j])
        lost(k) == IF nanmean THEN \A g \in segments(k) : dirty(k, g)
                   ELSE \E g \in segments(k) : dirty(k, g)
    IN  IF \E k \in DOMAIN picked : lost(k)
        THEN NaNSpectrum
        ELSE IF \A k \in DOMAIN picked : \A j \in DOMAIN picked[k] :
                    picked[k][j] = 0 \/ IsNaN(picked[k][j])
        THEN ZeroSpectrum
        ELSE spectrum

\* ------------------------------------------------------------ classifiers
(* A call returns [raised, percentage, ratio]: raised when the call ends in  *)
(* an exception, and otherwise the tuple of floats it returns.               *)
Raised == [raised |-> TRUE, percentage |-> NaNF, ratio |-> NaNF]
Returned(percentage, ratio) ==
    [raised |-> FALSE, percentage |-> percentage, ratio |-> ratio]

\* TirednessClassifier(sfreq, channels=["O1", "O2"]) with the default thresholds
tiredness_channels == <<"O1", "O2">>
alert_threshold == Frac(1, 1)
tired_threshold == Frac(3, 1)

\* mutant: the near-zero guard on beta_power is missing
get_tiredness_percentage_unguarded(data_chunk, e) ==
    IF ~e.psd_welch THEN Raised
    ELSE
    LET p == band_powers(pick_channels(data_chunk, tiredness_channels), e.occ, e.nanmean)
        ratio == DivF(PowerF(PlusPower(p.alpha, p.theta)), PowerF(p.beta))
    IN  IF LeqF(ratio, alert_threshold) THEN Returned(Frac(0, 1), ratio)
        ELSE IF GeqF(ratio, tired_threshold) THEN Returned(Frac(100, 1), ratio)
        ELSE Returned(TimesF(DivF(SubF(ratio, alert_threshold),
                                  SubF(tired_threshold, alert_threshold)), 100),
                      ratio)

get_tiredness_percentage(data_chunk, e) ==
    IF ~e.psd_welch THEN Raised
    ELSE
    LET p == band_powers(pick_channels(data_chunk, tiredness_channels), e.occ, e.nanmean)
        ratio == DivF(PowerF(PlusPower(p.alpha, p.theta)), PowerF(p.beta))
    IN  IF ~IsNaN(p.beta) /\ p.beta < EPSILON THEN Returned(Frac(0, 1), Frac(0, 1))
        ELSE IF LeqF(ratio, alert_threshold) THEN Returned(Frac(0, 1), ratio)
        ELSE IF GeqF(ratio, tired_threshold) THEN Returned(Frac(100, 1), ratio)
        ELSE Returned(TimesF(DivF(SubF(ratio, alert_threshold),
                                  SubF(tired_threshold, alert_threshold)), 100),
                      ratio)

\* StressClassifier(sfreq, channels=["Fp1", "Fp2"]) with the default thresholds
stress_channels == <<"Fp1", "Fp2">>
calm_threshold == Frac(1, 2)
stress_threshold == Frac(3, 2)

(* StressClassifier.__init__: the arguments are stored as they are; the      *)
(* channel names are first looked at by pick_channels, in                    *)
(* get_stress_percentage.                                                    *)
StressClassifier(sfreq, channels) ==
    [raised |-> FALSE, sfreq |-> sfreq, channels |-> channels,
     calm_threshold |-> calm_threshold, stress_threshold |-> stress_threshold]

\* mutant: the near-zero guard tests the numerator band
get_stress_percentage_betaguard(data_chunk, e) ==
    IF ~e.psd_welch THEN Raised
    ELSE
    LET p == band_powers(filter(pick_channels(data_chunk, stress_channels)), e.front,
                         e.nanmean)
        ratio == DivF(PowerF(p.beta), PowerF(p.alpha))
    IN  IF ~IsNaN(p.beta) /\ p.beta < EPSILON THEN Returned(Frac(0, 1), Frac(0, 1))
        ELSE IF LeqF(ratio, calm_threshold) THEN Returned(Frac(0, 1), ratio)
        ELSE IF GeqF(ratio, stress_threshold) THEN Returned(Frac(100, 1), ratio)
        ELSE Returned(TimesF(DivF(SubF(ratio, calm_threshold),
                                  SubF(stress_threshold, calm_threshold)), 100),
                      ratio)

get_stress_percentage(data_chunk, e) ==
    IF ~e.psd_welch THEN Raised
    ELSE
    LET p == band_powers(filter(pick_channels(data_chunk, stress_channels)), e.front,
                         e.nanmean)
        ratio == DivF(PowerF(p.beta), PowerF(p.alpha))
    IN  IF ~IsNaN(p.alpha) /\ p.alpha < EPSILON THEN Returned(Frac(0, 1), Frac(0, 1))
        ELSE IF LeqF(ratio, calm_threshold) THEN Returned(Frac(0, 1), ratio)
        ELSE IF GeqF(ratio, stress_threshold) THEN Returned(Frac(100, 1), ratio)
        ELSE Returned(TimesF(DivF(SubF(ratio, calm_threshold),
                                  SubF(stress_threshold, calm_threshold)), 100),
                      ratio)

\* mutant: the placeholder is given only for a chunk free of NaN
get_attention_percentage_clean(data_chunk) ==
    IF \E c \in DOMAIN data_chunk : \E j \in DOMAIN data_chunk[c] : IsNaN(data_chunk[c][j])
    THEN Returned(NaNF, Frac(0, 1))
    ELSE Returned(Frac(PLACEHOLDER_PERCENTAGE, 100), Frac(0, 1))

\* AttentionClassifier.get_attention_percentage: the placeholder (50.0, 0.0)
get_attention_percentage(data_chunk) ==
    Returned(Frac(PLACEHOLDER_PERCENTAGE, 100), Frac(0, 1))

(* BlinkingClassifier.detect_blink_in_chunk of src/BlinkingClassifier.py, the *)
(* module main.py imports.  Its first statement reads self.ch_names, and      *)
(* __init__ only ever sets self.channel_names: the call ends in an            *)
(* AttributeError before any sample is looked at.                             *)
detect_blink_in_chunk(data_window, analysis_duration_samples) ==
    [raised |-> TRUE, value |-> FALSE]


\* s[start:stop] of a Python sequence, with Python's 0-based indices: a
\* negative index counts from the end, and both are clipped to the sequence
PySlice(s, start, stop) ==
    LET norm(i) == IF i < 0 THEN (IF i + Len(s) < 0 THEN 0 ELSE i + Len(s))
                   ELSE Min(i, Len(s))
    IN  SubSeq(s, norm(start) + 1, norm(stop))

\* mutant: the margin is the whole surplus of the window, not half of it
margin_whole(total_samples, analysis_duration_samples) ==
    total_samples - analysis_duration_samples

\* margin = (total_samples - analysis_duration_samples) // 2
margin(total_samples, analysis_duration_samples) ==
    (total_samples - analysis_duration_samples) \div 2

\* central_data = channel_data_uv[margin : margin + analysis_duration_samples]
central_data(channel_data_uv, analysis_duration_samples) ==
    PySlice(channel_data_uv,
            margin(Len(channel_data_uv), analysis_duration_samples),
            margin(Len(channel_data_uv), analysis_duration_samples)
                + analysis_duration_samples)

(* BlinkingClassifier.detect_blink_in_chunk of src/models/BlinkingClassifier.py, *)
(* the variant that names the channels itself: [raised, values], the values     *)
(* being the booleans the call may return.  The window is band-pass filtered    *)
(* (mne warns about a signal shorter than the filter, and filters it), the      *)
(* centre is cut out by slicing, which never fails, and find_peaks answers for  *)
(* the slice: a peak is an interior sample, so fewer than 3 samples have none,  *)
(* and otherwise the answer depends on the filtered signal.                     *)
models_detect_blink_in_chunk(data_window, analysis_duration_samples) ==
    LET channel_data_uv == data_window[ChannelIndex("Fp1")]
        central == central_data(channel_data_uv, analysis_duration_samples)
    IN  [raised |-> FALSE,
         values |-> IF Len(central) < 3 THEN {FALSE} ELSE BOOLEAN]

\* ------------------------------------------- blink detection: find_peaks
\* np.abs
abs(v) == IF v < 0 THEN 0 - v ELSE v

(* scipy's _local_maxima_1d on x: the middle (left + right) // 2 of every    *)
(* run of equal samples left..right, first and last sample excluded, whose   *)
(* neighbours on both sides are strictly lower.  Indices are 1-based here,   *)
(* which leaves the middle of a run where it is.                             *)
local_maxima(x) ==
    { m \in 2..(Len(x) - 1) :
        \E left \in 2..m : \E right \in m..(Len(x) - 1) :
            /\ m = (left + right) \div 2
            /\ \A i \in left..right : x[i] = x[left]
            /\ x[left - 1] < x[left]
            /\ x[right + 1] < x[right] }

\* the peak _select_by_peak_distance visits next: the highest of those not
\* visited; among equal ones the order is argsort's, later or earlier first
NextPeak(todo, x, later_first) ==
    CHOOSE j \in todo :
        \A k \in todo :
            \/ x[k] < x[j]
            \/ x[k] = x[j] /\ (IF later_first THEN k <= j ELSE k >= j)

(* scipy's _select_by_peak_distance: the peaks are visited from the highest  *)
(* to the lowest; a peak that is still kept removes every other peak less    *)
(* than `distance` samples away from it, and a removed peak removes nothing. *)
RECURSIVE select_by_peak_distance(_, _, _, _, _)
select_by_peak_distance(todo, keep, x, distance, later_first) ==
    IF todo = {} THEN keep
    ELSE LET j == NextPeak(todo, x, later_first)
         IN  IF j \notin keep
             THEN select_by_peak_distance(todo \ {j}, keep, x, distance, later_first)
             ELSE select_by_peak_distance(
                      todo \ {j},
                      {k \in keep : k = j \/ abs(k - j) >= distance},
                      x, distance, later_first)

\* mutant: the distance rule runs before the height condition and keeps the
\* earliest peak of a group instead of the highest
RECURSIVE keep_earliest(_, _, _)
keep_earliest(todo, keep, distance) ==
    IF todo = {} THEN keep
    ELSE LET j == CHOOSE j \in todo : \A k \in todo : j <= k
         IN  IF j \notin keep THEN keep_earliest(todo \ {j}, keep, distance)
             ELSE keep_earliest(todo \ {j},
                                {k \in keep : k = j \/ abs(k - j) >= distance},
                                distance)

find_peaks_earliest(x, height, distance, later_first) ==
    LET peaks == local_maxima(x)
    IN  {p \in keep_earliest(peaks, peaks, distance) : x[p] >= height}

(* scipy.signal.find_peaks(x, height=height, distance=distance): the local   *)
(* maxima, of which those of at least `height` are kept, of which the        *)
(* distance rule then selects.  (distance < 1 raises ValueError; the calls   *)
(* modelled have distance >= 1.)                                             *)
find_peaks(x, height, distance, later_first) ==
    LET high == {p \in local_maxima(x) : x[p] >= height}
    IN  select_by_peak_distance(high, high, x, distance, later_first)

(* detect_blink_in_chunk from its centred segment on: abs_central_data =     *)
(* np.abs(central_data), find_peaks with height = threshold_uv and           *)
(* distance = refractory_samples, and `return len(peaks) > 0`.               *)
blink_in_segment(segment, threshold_uv, refractory_samples, later_first) ==
    LET abs_central_data == [i \in DOMAIN segment |-> abs(segment[i])]
    IN  find_peaks(abs_central_data, threshold_uv, refractory_samples, later_first) # {}

\* ------------------------------------------------ udp_client.py: the loop
\* udp_client.py has its own CHANNELS = 4, the value of main.py's
BYTES_PER_NUMBER == 8
NUMBERS_PER_ARRAY == CHANNELS * SAMPLES_PER_CHANNEL
REQUIRED_BYTES_FOR_ARRAY == NUMBERS_PER_ARRAY * BYTES_PER_NUMBER

\* socket.socket(...) followed by settimeout(1.0): the timeout of the socket,
\* <<>> for None (a blocking socket)
client_socket == [timeout |-> <<1>>]

\* The bytes of the stream the client is sent are numbered from 1: bytes
\* first+1 .. first+n
Bytes(first, n) == [i \in 1..n |-> first + i]

(* client_socket.recvfrom(32768) when `arrival` is what the network brings   *)
(* within the wait: the datagram's bytes, socket.timeout after the timeout   *)
(* of the socket when nothing arrives, and no return at all when nothing     *)
(* arrives at a socket without a timeout.                                    *)
recvfrom(sock, arrival) ==
    IF arrival.arrived THEN [outcome |-> "data", data |-> arrival.data]
    ELSE IF sock.timeout # <<>> THEN [outcome |-> "timeout", data |-> <<>>]
    ELSE [outcome |-> "blocked", data |-> <<>>]

\* np.frombuffer(chunk, dtype=np.float64) of a chunk of whole numbers: a
\* float64 is the BYTES_PER_NUMBER bytes it is read from
frombuffer_bytes(chunk) ==
    [k \in 1..(Len(chunk) \div BYTES_PER_NUMBER) |->
        SubSeq(chunk, (k - 1) * BYTES_PER_NUMBER + 1, k * BYTES_PER_NUMBER)]

\* mutant: an array is cut only when more than its bytes are there
RECURSIVE cut_arrays_lagging(_, _)
cut_arrays_lagging(buffer, collected) ==
    IF Len(buffer) > REQUIRED_BYTES_FOR_ARRAY
    THEN LET chunk_to_process == SubSeq(buffer, 1, REQUIRED_BYTES_FOR_ARRAY)
             reshaped_array == reshape(frombuffer_bytes(chunk_to_process),
                                       SAMPLES_PER_CHANNEL)
             rest == SubSeq(buffer, REQUIRED_BYTES_FOR_ARRAY + 1, Len(buffer))
         IN  IF Len(collected) + 1 >= MEASUREMENTS_TO_PLOT
             THEN [data_buffer |-> rest,
                   collected_measurements |-> Append(collected, reshaped_array),
                   is_running |-> FALSE]
             ELSE cut_arrays_lagging(rest, Append(collected, reshaped_array))
    ELSE [data_buffer |-> buffer, collected_measurements |-> collected,
          is_running |-> TRUE]

\* the inner while loop: arrays are cut off the front of the byte buffer
\* while a whole one is there, and the loop is left at MEASUREMENTS_TO_PLOT
RECURSIVE cut_arrays(_, _)
cut_arrays(buffer, collected) ==
    IF Len(buffer) >= REQUIRED_BYTES_FOR_ARRAY
    THEN LET chunk_to_process == SubSeq(buffer, 1, REQUIRED_BYTES_FOR_ARRAY)
             reshaped_array == reshape(frombuffer_bytes(chunk_to_process),
                                       SAMPLES_PER_CHANNEL)
             rest == SubSeq(buffer, REQUIRED_BYTES_FOR_ARRAY + 1, Len(buffer))
         IN  IF Len(collected) + 1 >= MEASUREMENTS_TO_PLOT
             THEN [data_buffer |-> rest,
                   collected_measurements |-> Append(collected, reshaped_array),
                   is_running |-> FALSE]
             ELSE cut_arrays(rest, Append(collected, reshaped_array))
    ELSE [data_buffer |-> buffer, collected_measurements |-> collected,
          is_running |-> TRUE]

\* mutant: the byte buffer is created anew by an iteration that times out
receive_iteration_resetting(buffer, collected, sock, arrival) ==
    LET r == recvfrom(sock, arrival)
    IN  IF r.outcome = "blocked"
        THEN [data_buffer |-> buffer, collected_measurements |-> collected,
              is_running |-> TRUE, pc |-> "recvfrom"]
        ELSE IF r.outcome = "timeout"
        THEN [data_buffer |-> <<>>, collected_measurements |-> collected,
              is_running |-> TRUE, pc |-> "loop"]
        ELSE LET cut == cut_arrays(buffer \o r.data, collected)
             IN  [data_buffer |-> cut.data_buffer,
                  collected_measurements |-> cut.collected_measurements,
                  is_running |-> cut.is_running,
                  pc |-> IF cut.is_running THEN "loop" ELSE "analysis"]

(* One iteration of `while is_running`: the sockets are created, the request *)
(* is sent, recvfrom returns or raises; the bytes received are added to the  *)
(* buffer and cut into arrays; socket.timeout is caught and printed; the     *)
(* finally clause closes the sockets; the loop is left when is_running is    *)
(* false.  pc is where the script is afterwards: at the head of the loop, in *)
(* a recvfrom that does not return, or past the loop.                        *)
receive_iteration(buffer, collected, sock, arrival) ==
    LET r == recvfrom(sock, arrival)
    IN  IF r.outcome = "blocked"
        THEN [data_buffer |-> buffer, collected_measurements |-> collected,
              is_running |-> TRUE, pc |-> "recvfrom"]
        ELSE IF r.outcome = "timeout"
        THEN [data_buffer |-> buffer, collected_measurements |-> collected,
              is_running |-> TRUE, pc |-> "loop"]
        ELSE LET cut == cut_arrays(buffer \o r.data, collected)
             IN  [data_buffer |-> cut.data_buffer,
                  collected_measurements |-> cut.collected_measurements,
                  is_running |-> cut.is_running,
                  pc |-> IF cut.is_running THEN "loop" ELSE "analysis"]

\* ------------------------------------------------------------------ state
VARIABLES
    env,            \* the environment of this session (see Environments)
    sender,         \* demo.py: the samples streamed so far (sent), the sample and
                    \* channel that carried a NaN (nan_at, nan_ch; 0 for none),
                    \* and, while every datagram so far was a whole analysis
                    \* interval of clean samples (regular), their number (packets)
    transport,      \* the UDP endpoint: "open" until main_async closes it
    data_buffer,    \* EEGUDPProtocol.data_buffer, a deque of sample columns
    results_queue,  \* the module's results_queue
    analyses,       \* run_analysis calls so far; the next pass reads the clock at analyses + 1
    since_pass,     \* samples appended since the last run_analysis call
    valid_at_full,  \* datagrams decoded and appended that left the buffer at
                    \* capacity, the one that filled it included
    clients,        \* the module's set of registered websockets
    conn,           \* each websocket: "none", "open", "closed" (closing or lost), "gone"
    bpc,            \* websocket_broadcaster: "get", "gather", "failed", "dead",
                    \* "cancelled"
    data,           \* the result the broadcaster holds
    pending,        \* the websockets whose send of `data` has not finished
    delivered,      \* per websocket, the timestamp of the last result sent to it
    forwarded,      \* the timestamp of the last result handed to forward_socket.sendto
    forward_errors, \* the forwards whose exception the broadcaster caught and printed
    ws_server,      \* the WebSocket server: "serving" until main_async closes it
    forward_socket, \* the forwarding UDP socket: "open" until main_async closes it
    udp_client,     \* udp_client.py: data_buffer, collected_measurements,
                    \* is_running and the place in the script (pc); of its
                    \* iterations so far their number (reads), how many timed
                    \* out (timeouts), the bytes received (received) and what
                    \* the last one met (op)
    blink_call,     \* a centred segment, a threshold and an order of equal peaks,
                    \* and what the blink detection returned for them when it
                    \* was last called, with which refractory distance
    ramp_call,      \* the ramp normalisation under way: its inputs and what it returned
    headset,        \* eeg_headset.py: the flags of an EEGHeadset, its collection threads and the call under way
    last            \* what the last step did: for a datagram, whether its byte
                    \* length was a multiple of CHANNELS * 8 (sized), whether it
                    \* was decoded (valid), whether an exception left the handler
                    \* (escaped), the samples appended and the passes run; for a
                    \* forward, whether sendto succeeded (ok)

vars == <<env, sender, transport, data_buffer, results_queue, analyses, since_pass,
          valid_at_full,
          clients, conn, bpc, data, pending, delivered, forwarded, forward_errors,
          ws_server,
          forward_socket, udp_client, blink_call, ramp_call, headset, last>>

ClientIds == 1..NumClients

NoData == [timestamp |-> 0]

\* `last` of a step that is not a datagram
Step(op) ==
    [op |-> op, sized |-> FALSE, valid |-> FALSE, escaped |-> FALSE,
     samples |-> 0, passes |-> 0, ok |-> TRUE]

\* the blink detection before any call on a segment
NoCall ==
    [central_data |-> <<>>, threshold_uv |-> 1, later_first |-> FALSE,
     refractory_samples |-> 1, called |-> FALSE, returned |-> FALSE]

\* ------------------------------------------------ floats with a range
(* A Python float with its range, as the ramp normalisation meets it: a      *)
(* finite value is an exact fraction n / d (d > 0) of magnitude at most      *)
(* MaxFloat; a difference or a product beyond MaxFloat is an infinity, and   *)
(* inf / inf is NaN.  Rounding within the range is left out.                 *)
Finite(n, d) == [kind |-> "finite", n |-> n, d |-> d]
Infinity(sign) == [kind |-> "inf", n |-> sign, d |-> 0]
NotANumber == [kind |-> "nan", n |-> 0, d |-> 0]
\* a division of a finite value by zero
ZeroDivision == [kind |-> "ZeroDivision", n |-> 0, d |-> 0]

\* the float64 that n / d (d > 0) gives: an infinity beyond the range
float64(n, d) ==
    IF n > MaxFloat * d THEN Infinity(1)
    ELSE IF -n > MaxFloat * d THEN Infinity(-1)
    ELSE Finite(n, d)

\* x <= y and x >= y of finite floats
float_le(x, y) == x.n * y.d <= y.n * x.d
float_ge(x, y) == x.n * y.d >= y.n * x.d

\* x - y of finite floats
float_sub(x, y) == float64(x.n * y.d - y.n * x.d, x.d * y.d)

\* x / y of two differences
float_div(x, y) ==
    IF x.kind = "nan" \/ y.kind = "nan" THEN NotANumber
    ELSE IF y.kind = "finite" /\ y.n = 0 THEN ZeroDivision
    ELSE IF x.kind = "inf" /\ y.kind = "inf" THEN NotANumber
    ELSE IF y.kind = "inf" THEN Finite(0, 1)
    ELSE IF x.kind = "inf" THEN Infinity(IF y.n > 0 THEN x.n ELSE -x.n)
    ELSE IF y.n > 0 THEN float64(x.n * y.d, x.d * y.n)
    ELSE float64(-(x.n * y.d), -(x.d * y.n))

\* x * k for an integer k > 0
float_mul(x, k) ==
    IF x.kind = "finite" THEN float64(x.n * k, x.d) ELSE x

\* no ramp normalisation under way
NoRamp ==
    [of |-> "tiredness", ratio |-> Finite(0, 1), low |-> Finite(0, 1),
     high |-> Finite(0, 1), called |-> FALSE, percentage |-> Finite(0, 1),
     interpolated |-> FALSE]

\* EEGHeadset.__init__: the flags, no collection thread yet, no call under
\* way (pc) and no call made (calls)
EEGHeadset ==
    [is_connected |-> FALSE, is_recording |-> FALSE, viz_active |-> FALSE,
     threads |-> <<>>, pc |-> "idle", calls |-> 0]

\* the server, its sender and udp_client.py when they start
Started ==
    /\ env \in Environments
    /\ sender = [sent |-> 0, nan_at |-> 0, nan_ch |-> 0, regular |-> TRUE, packets |-> 0]
    /\ transport = "open"
    /\ data_buffer = <<>>
    /\ results_queue = <<>>
    /\ analyses = 0
    /\ since_pass = 0
    /\ valid_at_full = 0
    /\ clients = {}
    /\ conn = [c \in ClientIds |-> "none"]
    /\ bpc = "get"
    /\ data = NoData
    /\ pending = {}
    /\ delivered = [c \in ClientIds |-> 0]
    /\ forwarded = 0
    /\ forward_errors = 0
    /\ ws_server = "serving"
    /\ forward_socket = "open"
    /\ udp_client = [data_buffer |-> <<>>, collected_measurements |-> <<>>,
                     is_running |-> TRUE, pc |-> "loop", reads |-> 0,
                     timeouts |-> 0, received |-> 0, op |-> "init"]
    /\ last = Step("init")

Init ==
    /\ Started
    /\ blink_call = NoCall
    /\ ramp_call = NoRamp
    /\ headset = EEGHeadset

\* ------------------------------------------------------------- analysis
\* mutant: the window is cut from the oldest end of the snapshot
blink_data_window_leading(M) ==
    [c \in Channels |-> SubSeq(M[c], 1, Min(blink_window_samples, Len(M[c])))]

\* the windows run_analysis cuts from its snapshot, one per classifier
blink_data_window(M) == Trailing(M, blink_window_samples)
tiredness_data_chunk(M) == Trailing(M, tiredness_samples)
stress_data_chunk(M) == Trailing(M, stress_samples)

(* One try/except of run_analysis: the entries the block adds to the results *)
(* dict, the indicator when the classifier returns and the default of the    *)
(* except clause when it raises.                                             *)
blink_block(M) ==
    LET r == detect_blink_in_chunk(blink_data_window(M), analysis_samples)
    IN  IF r.raised THEN "is_blinking" :> FALSE
        ELSE "is_blinking" :> r.value

\* mutant: the except clause only prints
tiredness_block_nodefault(M, e) ==
    LET r == get_tiredness_percentage(Trailing(M, tiredness_samples), e)
    IN  IF r.raised THEN [k \in {} |-> FALSE]
        ELSE "tiredness" :> [percentage |-> round(r.percentage, 100),
                             ratio |-> round(r.ratio, 1000)]

tiredness_block(M, e) ==
    LET r == get_tiredness_percentage(tiredness_data_chunk(M), e)
    IN  IF r.raised THEN "tiredness" :> [percentage |-> 0, ratio |-> 0]
        ELSE "tiredness" :> [percentage |-> round(r.percentage, 100),
                             ratio |-> round(r.ratio, 1000)]

stress_block(M, e) ==
    LET r == get_stress_percentage(stress_data_chunk(M), e)
    IN  IF r.raised THEN "stress" :> [percentage |-> 0, ratio |-> 0]
        ELSE "stress" :> [percentage |-> round(r.percentage, 100),
                          ratio |-> round(r.ratio, 1000)]

attention_block(M) ==
    LET r == get_attention_percentage(M)
    IN  IF r.raised THEN "attention" :> [percentage |-> 0]
        ELSE "attention" :> [percentage |-> round(r.percentage, 100)]

\* mutant: a queue of maxsize 1, whose QueueFull the outer except swallows
put_nowait_bounded(queue, item) ==
    IF Len(queue) >= 1 THEN queue ELSE Append(queue, item)

\* asyncio.Queue().put_nowait(item): the queue is unbounded
put_nowait(queue, item) == Append(queue, item)

\* mutant: one try around the four classifiers, so that the first exception
\* ends the pass
run_analysis_try_unguarded(buf, queue, now, e) ==
    LET M == np_buffer(buf)
        results == blink_block(M) @@ tiredness_block(M, e) @@ stress_block(M, e)
                   @@ attention_block(M)
        output_data == ("timestamp" :> now) @@ results
    IN  IF \/ detect_blink_in_chunk(Trailing(M, blink_window_samples),
                                    analysis_samples).raised
           \/ get_tiredness_percentage(Trailing(M, tiredness_samples), e).raised
           \/ get_stress_percentage(Trailing(M, stress_samples), e).raised
           \/ get_attention_percentage(M).raised
        THEN [queue |-> queue, raised |-> TRUE]
        ELSE [queue |-> Append(queue, output_data), raised |-> FALSE]

(* The body of run_analysis's outer try, as [queue, raised]: the snapshot,   *)
(* the four blocks in order, output_data = {"timestamp": time.time(),        *)
(* **results} and put_nowait.  Nothing outside the four inner blocks raises: *)
(* np.array of the deque, the dict display and put_nowait on an unbounded    *)
(* queue all succeed.                                                        *)
run_analysis_try(buf, queue, now, e) ==
    LET M == np_buffer(buf)
        results == blink_block(M) @@ tiredness_block(M, e) @@ stress_block(M, e)
                   @@ attention_block(M)
        output_data == ("timestamp" :> now) @@ results
    IN  [queue |-> put_nowait(queue, output_data), raised |-> FALSE]

\* mutant: the pass consumes the samples it analysed
run_analysis_draining(buf, queue, now, e) ==
    [buffer |-> <<>>, queue |-> run_analysis_try(buf, queue, now, e).queue]

\* run_analysis: `except Exception` around the body only prints, so that no
\* exception leaves the call; it reads self.data_buffer once, to copy it, and
\* what it leaves is the buffer as it was and the queue
run_analysis(buf, queue, now, e) ==
    [buffer |-> buf, queue |-> run_analysis_try(buf, queue, now, e).queue]

\* mutant: the trailing bytes are dropped instead of refused
frombuffer_truncating(packet) == [raised |-> FALSE, vals |-> packet.vals]

\* np.frombuffer(data, dtype=np.float64): ValueError unless the byte length is
\* a multiple of the item size
frombuffer(packet) ==
    IF packet.extra # 0 THEN [raised |-> TRUE, vals |-> <<>>]
    ELSE [raised |-> FALSE, vals |-> packet.vals]

\* mutant: > for >=
buffer_full_strict(buf) == Len(buf) > buffer_size

\* mutant: the threshold one sample short
buffer_full_early(buf) == Len(buf) >= buffer_size - 1

\* len(self.data_buffer) >= self.buffer_size
buffer_full(buf) == Len(buf) >= buffer_size

\* mutant: the pass runs as soon as the first sample of the datagram has been
\* appended, if the buffer is full then, and the other samples follow it
datagram_try_partial(packet, buf, queue, now, e) ==
    LET numpy_1d == frombuffer(packet)
    IN  IF numpy_1d.raised
        THEN [buffer |-> buf, queue |-> queue, valid |-> FALSE, raised |-> TRUE,
              samples |-> 0, passes |-> 0]
        ELSE IF Len(numpy_1d.vals) % CHANNELS = 0
        THEN LET samples == Len(numpy_1d.vals) \div CHANNELS
                 reshaped == reshape(numpy_1d.vals, samples)
                 first == AppendColumns(buf, reshaped, 1, Min(1, samples))
                 filled == AppendColumns(buf, reshaped, 1, samples)
             IN  IF buffer_full(filled)
                 THEN [buffer |-> filled,
                       queue |-> run_analysis(IF buffer_full(first) THEN first
                                              ELSE filled, queue, now, e).queue,
                       valid |-> TRUE, raised |-> FALSE, samples |-> samples,
                       passes |-> 1]
                 ELSE [buffer |-> filled, queue |-> queue, valid |-> TRUE,
                       raised |-> FALSE, samples |-> samples, passes |-> 0]
        ELSE [buffer |-> buf, queue |-> queue, valid |-> FALSE, raised |-> FALSE,
              samples |-> 0, passes |-> 0]

(* The body of datagram_received's try, as                                   *)
(* [buffer, queue, valid, raised, samples, passes]: valid when the datagram  *)
(* was decoded and appended, raised when the body ended in an exception.     *)
datagram_try(packet, buf, queue, now, e) ==
    LET numpy_1d == frombuffer(packet)
    IN  IF numpy_1d.raised
        THEN [buffer |-> buf, queue |-> queue, valid |-> FALSE, raised |-> TRUE,
              samples |-> 0, passes |-> 0]
        ELSE IF Len(numpy_1d.vals) % CHANNELS = 0
        THEN LET samples == Len(numpy_1d.vals) \div CHANNELS
                 reshaped == reshape(numpy_1d.vals, samples)
                 filled == AppendColumns(buf, reshaped, 1, samples)
             IN  IF buffer_full(filled)
                 THEN LET ran == run_analysis(filled, queue, now, e)
                      IN  [buffer |-> ran.buffer, queue |-> ran.queue,
                           valid |-> TRUE, raised |-> FALSE, samples |-> samples,
                           passes |-> 1]
                 ELSE [buffer |-> filled, queue |-> queue, valid |-> TRUE,
                       raised |-> FALSE, samples |-> samples, passes |-> 0]
        ELSE \* the warning branch
             [buffer |-> buf, queue |-> queue, valid |-> FALSE, raised |-> FALSE,
              samples |-> 0, passes |-> 0]

\* mutant: no except clause around the body
datagram_received_uncaught(packet, buf, queue, now, e) ==
    datagram_try(packet, buf, queue, now, e)

\* datagram_received: `except Exception` around the body prints the error, so
\* that what the handler leaves is what its body left, and no exception
datagram_received(packet, buf, queue, now, e) ==
    [datagram_try(packet, buf, queue, now, e) EXCEPT !.raised = FALSE]

\* the state in which datagram_received, having left `after`, leaves the server
Handled(packet, after) ==
    /\ data_buffer' = after.buffer
    /\ results_queue' = after.queue
    /\ analyses' = analyses + after.passes
    /\ since_pass' = IF after.passes > 0 THEN 0 ELSE since_pass + after.samples
    /\ valid_at_full' = IF after.valid /\ Len(after.buffer) >= buffer_size
                        THEN valid_at_full + 1 ELSE valid_at_full
    /\ last' = [op |-> "datagram",
                sized |-> nbytes(packet) % (CHANNELS * ITEMSIZE) = 0,
                valid |-> after.valid, escaped |-> after.raised,
                samples |-> after.samples, passes |-> after.passes, ok |-> TRUE]

\* The event loop hands one datagram to the protocol.
Deliver(packet) ==
    Handled(packet,
            datagram_received(packet, data_buffer, results_queue, analyses + 1, env))

Quiet == UNCHANGED <<clients, conn, bpc, data, pending, delivered, forwarded,
                     forward_errors,
                     ws_server, forward_socket, udp_client, blink_call,
                   ramp_call, headset>>

\* mutant: the event loop runs no datagram callback while a send is pending
Receiving_blocked == transport = "open" /\ pending = {}

(* The event loop calls datagram_received for a datagram that arrives while  *)
(* the endpoint is open, whatever the broadcaster task is waiting for: the   *)
(* loop has one thread, and a coroutine that awaits a send is suspended.     *)
Receiving == transport = "open"

\* the channels on which the sender may put a NaN
NaNChannels == {ChannelIndex("Fp1"), ChannelIndex("O1")}

\* The sender streams the next S samples (S in sizes) as one well-formed
\* datagram, the first of them NaN on channel nanch when nanch > 0.
ValidDatagram(sizes, nanchs) ==
    /\ Receiving
    /\ analyses < MaxAnalyses
    /\ \E S \in sizes :
       \E nanch \in {0} \cup (IF S >= 1 /\ sender.nan_at = 0 THEN nanchs ELSE {}) :
          /\ sender.sent + S <= buffer_size + ExtraSamples
          /\ Deliver(Datagram(tobytes(Chunk(env.signal, sender.sent, S, nanch), S), 0))
          /\ sender' =
                LET regular == sender.regular /\ S = analysis_samples /\ nanch = 0
                IN  [sent |-> sender.sent + S,
                     nan_at |-> IF nanch # 0 THEN sender.sent + 1 ELSE sender.nan_at,
                     nan_ch |-> IF nanch # 0 THEN nanch ELSE sender.nan_ch,
                     regular |-> regular,
                     packets |-> IF regular THEN sender.packets + 1 ELSE 0]
    /\ UNCHANGED <<env, transport>>
    /\ Quiet

\* <<k, extra>> of the damaged datagrams tried: k float64 values too many for
\* a whole number of samples, extra bytes too many for a whole number of values
Damage == { <<1, 0>>, <<0, 1>>, <<CHANNELS - 1, ITEMSIZE - 1>> }

MalformedDatagram ==
    /\ Receiving
    /\ analyses < MaxAnalyses
    /\ \E S \in 0..1, d \in Damage :
          Deliver(Datagram(tobytes(Chunk(env.signal, sender.sent, S, 0), S) \o Pad(d[1]),
                           d[2]))
    /\ sender' = [sender EXCEPT !.regular = FALSE, !.packets = 0]
    /\ UNCHANGED <<env, transport>>
    /\ Quiet

\* ------------------------------------------------------------ subscribers
Still == UNCHANGED <<env, sender, transport, data_buffer, results_queue, analyses,
                     since_pass, valid_at_full, ws_server, forward_socket,
                     udp_client, blink_call, ramp_call, headset>>

\* register_client up to its await: a websocket connects and is added
Connect(c) ==
    /\ bpc # "dead"
    /\ ws_server = "serving"
    /\ conn[c] = "none"
    /\ conn' = [conn EXCEPT ![c] = "open"]
    /\ clients' = clients \cup {c}
    /\ last' = Step("connect")
    /\ Still
    /\ UNCHANGED <<bpc, data, pending, delivered, forwarded, forward_errors>>

\* The peer goes away: the connection is closing or closed, and the handler
\* waiting in wait_closed has not run yet.
ConnectionLost(c) ==
    /\ conn[c] = "open"
    /\ conn' = [conn EXCEPT ![c] = "closed"]
    /\ last' = Step("lost")
    /\ Still
    /\ UNCHANGED <<clients, bpc, data, pending, delivered, forwarded, forward_errors>>

\* mutant: the handler ends without removing the websocket
Unregister_keeping(c) ==
    /\ conn[c] = "closed"
    /\ conn' = [conn EXCEPT ![c] = "gone"]
    /\ clients' = clients
    /\ last' = Step("unregister")
    /\ Still
    /\ UNCHANGED <<bpc, data, pending, delivered, forwarded, forward_errors>>

\* register_client after wait_closed: the finally clause removes the websocket
Unregister(c) ==
    /\ conn[c] = "closed"
    /\ conn' = [conn EXCEPT ![c] = "gone"]
    /\ clients' = clients \ {c}
    /\ last' = Step("unregister")
    /\ Still
    /\ UNCHANGED <<bpc, data, pending, delivered, forwarded, forward_errors>>

\* ------------------------------------------------------------ broadcaster
\* forward_socket.sendto(message, ...) inside its try: the except clause only
\* prints, so the loop goes on whether or not the send succeeded
Forward(result) == result.timestamp

\* the except clause of the forward: the exceptions caught so far, after a
\* forward that succeeded (ok) or raised
Caught(ok) == IF ok THEN forward_errors ELSE forward_errors + 1

\* mutant: the broadcaster reads the head of the queue and leaves it there
BroadcasterGet_retaining(oks) ==
    /\ bpc = "get"
    /\ results_queue # <<>>
    /\ results_queue' = results_queue
    /\ IF clients = {}
       THEN /\ forwarded' = Forward(Head(results_queue))
            /\ \E ok \in oks : /\ last' = [Step("get") EXCEPT !.ok = ok]
                              /\ forward_errors' = Caught(ok)
            /\ UNCHANGED <<bpc, data, pending>>
       ELSE /\ data' = Head(results_queue)
            /\ pending' = clients
            /\ bpc' = "gather"
            /\ last' = Step("get")
            /\ UNCHANGED <<forwarded, forward_errors>>
    /\ UNCHANGED <<env, sender, transport, data_buffer, analyses, since_pass,
                   valid_at_full, clients, conn, delivered, ws_server, forward_socket,
                   udp_client, blink_call, ramp_call, headset>>

(* websocket_broadcaster from results_queue.get() to its next await: with no *)
(* client, broadcast_data returns at once and the result is forwarded; with  *)
(* clients, gather starts one send per client of the set as it is now.       *)
BroadcasterGet(oks) ==
    /\ bpc = "get"
    /\ results_queue # <<>>
    /\ results_queue' = Tail(results_queue)
    /\ IF clients = {}
       THEN /\ forwarded' = Forward(Head(results_queue))
            /\ \E ok \in oks : /\ last' = [Step("get") EXCEPT !.ok = ok]
                              /\ forward_errors' = Caught(ok)
            /\ UNCHANGED <<bpc, data, pending>>
       ELSE /\ data' = Head(results_queue)
            /\ pending' = clients
            /\ bpc' = "gather"
            /\ last' = Step("get")
            /\ UNCHANGED <<forwarded, forward_errors>>
    /\ UNCHANGED <<env, sender, transport, data_buffer, analyses, since_pass,
                   valid_at_full, clients, conn, delivered, ws_server, forward_socket,
                   udp_client, blink_call, ramp_call, headset>>

\* client.send(message) on an open connection finishes
SendDone(c) ==
    /\ c \in pending
    /\ conn[c] = "open"
    /\ delivered' = [delivered EXCEPT ![c] = data.timestamp]
    /\ pending' = pending \ {c}
    /\ last' = Step("sent")
    /\ Still
    /\ UNCHANGED <<clients, conn, bpc, data, forwarded, forward_errors>>

(* client.send(message) raises ConnectionClosed.  gather was called without   *)
(* return_exceptions: the first exception becomes the result of the gather,  *)
(* and the other sends go on.                                                *)
SendFail(c) ==
    /\ c \in pending
    /\ conn[c] # "open"
    /\ pending' = pending \ {c}
    /\ bpc' = IF bpc = "gather" THEN "failed" ELSE bpc
    /\ last' = Step("sendfail")
    /\ Still
    /\ UNCHANGED <<clients, conn, data, delivered, forwarded, forward_errors>>

\* mutant: no try around the forward, so that its exception ends the task
BroadcasterForward_uncaught(oks) ==
    /\ bpc = "gather"
    /\ pending = {}
    /\ forwarded' = Forward(data)
    /\ \E ok \in oks : /\ last' = [Step("forward") EXCEPT !.ok = ok]
                      /\ forward_errors' = forward_errors
                      /\ bpc' = IF ok THEN "get" ELSE "failed"
    /\ data' = NoData
    /\ Still
    /\ UNCHANGED <<clients, conn, pending, delivered>>

\* every send finished: broadcast_data returns, the result is forwarded and
\* the loop is back at results_queue.get()
BroadcasterForward(oks) ==
    /\ bpc = "gather"
    /\ pending = {}
    /\ forwarded' = Forward(data)
    /\ \E ok \in oks : /\ last' = [Step("forward") EXCEPT !.ok = ok]
                      /\ forward_errors' = Caught(ok)
    /\ bpc' = "get"
    /\ data' = NoData
    /\ Still
    /\ UNCHANGED <<clients, conn, pending, delivered>>

\* mutant: the finally clause does not close the UDP endpoint
main_async_finally_leaky ==
    /\ transport' = transport
    /\ ws_server' = "closed"
    /\ forward_socket' = "closed"
    /\ conn' = [c \in ClientIds |-> IF conn[c] = "open" THEN "closed" ELSE conn[c]]

(* The finally clause of main_async: udp_transport.close(), ws_server.close() *)
(* (which closes the connections that are open) and forward_socket.close().   *)
main_async_finally ==
    /\ transport' = "closed"
    /\ ws_server' = "closed"
    /\ forward_socket' = "closed"
    /\ conn' = [c \in ClientIds |-> IF conn[c] = "open" THEN "closed" ELSE conn[c]]

(* The gather's exception leaves broadcast_data and websocket_broadcaster,    *)
(* which catch nothing: the task ends, `await broadcaster_task` raises in     *)
(* main_async, and its finally clause closes the UDP endpoint, the WebSocket  *)
(* server and the forwarding socket before the program exits.                 *)
BroadcasterCrash ==
    /\ bpc = "failed"
    /\ bpc' = "dead"
    /\ main_async_finally
    /\ pending' = {}
    /\ last' = Step("crash")
    /\ UNCHANGED <<env, sender, data_buffer, results_queue, analyses, since_pass,
                   valid_at_full, clients, data, delivered, forwarded, forward_errors,
                   udp_client, blink_call, ramp_call, headset>>

(* The program is stopped (KeyboardInterrupt): asyncio.run cancels main_async *)
(* at `await broadcaster_task`, which cancels the broadcaster task and the    *)
(* sends it waits for, and the finally clause of main_async runs.             *)
KeyboardInterrupt ==
    /\ bpc \notin {"dead", "cancelled"}
    /\ bpc' = "cancelled"
    /\ main_async_finally
    /\ pending' = {}
    /\ last' = Step("stop")
    /\ UNCHANGED <<env, sender, data_buffer, results_queue, analyses, since_pass,
                   valid_at_full, clients, data, delivered, forwarded, forward_errors,
                   udp_client, blink_call, ramp_call, headset>>

\* ------------------------------------------------------------ udp_client.py
Server == UNCHANGED <<env, sender, transport, data_buffer, results_queue, analyses,
                      since_pass, valid_at_full, clients, conn, bpc, data, pending, delivered,
                      forwarded, forward_errors, ws_server, forward_socket, last,
                      blink_call, ramp_call, headset>>

\* the byte lengths of the datagrams the client is sent
DatagramBytes ==
    {0, 1, REQUIRED_BYTES_FOR_ARRAY - 1, REQUIRED_BYTES_FOR_ARRAY,
     REQUIRED_BYTES_FOR_ARRAY + 1, 2 * REQUIRED_BYTES_FOR_ARRAY + 1}

\* the script after an iteration of its loop that met `arrival`
Iterated(arrival) ==
    LET r == receive_iteration(udp_client.data_buffer,
                               udp_client.collected_measurements, client_socket,
                               arrival)
    IN  udp_client' =
            [data_buffer |-> r.data_buffer,
             collected_measurements |-> r.collected_measurements,
             is_running |-> r.is_running,
             pc |-> r.pc,
             reads |-> udp_client.reads + 1,
             timeouts |-> udp_client.timeouts + (IF arrival.arrived THEN 0 ELSE 1),
             received |-> udp_client.received + Len(arrival.data),
             op |-> IF arrival.arrived THEN "data" ELSE "silence"]

\* an iteration of the loop during which no datagram reaches the client
ReadSilence ==
    /\ udp_client.pc = "loop"
    /\ udp_client.reads < MaxReads
    /\ Iterated([arrived |-> FALSE, data |-> <<>>])
    /\ Server

\* an iteration of the loop during which a datagram reaches the client
ReadDatagram ==
    /\ udp_client.pc = "loop"
    /\ udp_client.reads < MaxReads
    /\ \E n \in DatagramBytes :
          Iterated([arrived |-> TRUE, data |-> Bytes(udp_client.received, n)])
    /\ Server

(* Spec: the receive and analysis path.  The sender streams packets of every *)
(* size up to MaxPacketSamples and packets of one sample more than the       *)
(* buffer holds, damaged packets and NaN samples; no subscriber connects,    *)
(* and every forward succeeds.                                               *)
Next ==
    \/ ValidDatagram((0..MaxPacketSamples) \cup {buffer_size + 1}, NaNChannels)
    \/ MalformedDatagram
    \/ BroadcasterGet({TRUE})

Spec == Init /\ [][Next]_vars

(* BroadcastSpec: the publish path.  A silent headset streams datagrams of   *)
(* one analysis interval or of one whole buffer, while subscribers connect,  *)
(* are sent results and go away, and forwards succeed or fail.               *)
InitBroadcast ==
    /\ Init
    /\ env.signal = "zero"
    /\ env.psd_welch

NextBroadcast ==
    \/ ValidDatagram({analysis_samples, buffer_size}, {})
    \/ \E c \in ClientIds : Connect(c)
    \/ \E c \in ClientIds : ConnectionLost(c)
    \/ \E c \in ClientIds : Unregister(c)
    \/ BroadcasterGet(BOOLEAN)
    \/ \E c \in ClientIds : SendDone(c)
    \/ \E c \in ClientIds : SendFail(c)
    \/ BroadcasterForward(BOOLEAN)
    \/ BroadcasterCrash
    \/ KeyboardInterrupt

BroadcastSpec == InitBroadcast /\ [][NextBroadcast]_vars

(* FairBroadcastSpec: the publish path on an event loop that runs every      *)
(* task that is ready: the broadcaster is resumed when the queue has a       *)
(* result or its gather is done, a send that was started finishes or fails,  *)
(* and an exception that ended the broadcaster reaches main_async.  Nothing  *)
(* is assumed of the network, the subscribers or the user.                   *)
FairBroadcastSpec ==
    /\ BroadcastSpec
    /\ WF_vars(BroadcasterGet(BOOLEAN))
    /\ WF_vars(BroadcasterForward(BOOLEAN))
    /\ WF_vars(BroadcasterCrash)
    /\ \A c \in ClientIds : WF_vars(SendDone(c)) /\ WF_vars(SendFail(c))

(* ClientSpec: the receive loop of udp_client.py.  In each iteration a       *)
(* datagram of some length reaches the client socket, or none does.          *)
NextClient ==
    \/ ReadSilence
    \/ ReadDatagram

ClientSpec == InitBroadcast /\ [][NextClient]_vars

\* ------------------------------------------------------- blink detection
\* sample values of the centred segments tried, in microvolts
Amplitudes == {-2, 0, 1, 2}

Segments ==
    UNION { [1..n -> Amplitudes] : n \in (MaxSegment - 1)..MaxSegment }

\* the detector is called on the segment with one refractory distance
Detect(refractory_samples) ==
    /\ blink_call' =
          [blink_call EXCEPT
              !.refractory_samples = refractory_samples,
              !.called = TRUE,
              !.returned = blink_in_segment(blink_call.central_data,
                                            blink_call.threshold_uv,
                                            refractory_samples, blink_call.later_first)]
    /\ UNCHANGED <<env, sender, transport, data_buffer, results_queue, analyses,
                   since_pass, valid_at_full, clients, conn, bpc, data, pending,
                   delivered, forwarded, forward_errors, ws_server, forward_socket,
                   udp_client, ramp_call, headset, last>>

(* PeaksSpec: the blink detection from the centred segment on, called with   *)
(* every refractory distance on every segment of small samples, for every    *)
(* threshold among them and both orders of equal peaks.                      *)
InitPeaks ==
    /\ Started
    /\ env.signal = "zero"
    /\ env.psd_welch
    /\ \E segment \in Segments, threshold_uv \in 1..2, later_first \in BOOLEAN :
          blink_call = [NoCall EXCEPT !.central_data = segment,
                                      !.threshold_uv = threshold_uv,
                                      !.later_first = later_first]
    /\ ramp_call = NoRamp
    /\ headset = EEGHeadset

NextPeaks == \E d \in 1..MaxDistance : Detect(d)

PeaksSpec == InitPeaks /\ [][NextPeaks]_vars

\* --------------------------------------------------- ramp normalisation
\* mutant: the upper threshold is tested first
tiredness_ramp_upper_first(ratio, alert, tired) ==
    IF float_ge(ratio, tired)
    THEN [percentage |-> Finite(100, 1), interpolated |-> FALSE]
    ELSE IF float_le(ratio, alert)
    THEN [percentage |-> Finite(0, 1), interpolated |-> FALSE]
    ELSE [percentage |-> float_mul(float_div(float_sub(ratio, alert),
                                             float_sub(tired, alert)), 100),
          interpolated |-> TRUE]

(* TirednessClassifier.get_tiredness_percentage from the ratio on, for the   *)
(* thresholds the classifier was constructed with: the percentage, and       *)
(* whether the interpolation branch computed it.                             *)
tiredness_ramp(ratio, alert, tired) ==
    IF float_le(ratio, alert)
    THEN [percentage |-> Finite(0, 1), interpolated |-> FALSE]
    ELSE IF float_ge(ratio, tired)
    THEN [percentage |-> Finite(100, 1), interpolated |-> FALSE]
    ELSE [percentage |-> float_mul(float_div(float_sub(ratio, alert),
                                             float_sub(tired, alert)), 100),
          interpolated |-> TRUE]

\* StressClassifier.get_stress_percentage from the ratio on
stress_ramp(ratio, calm, stress) ==
    IF float_le(ratio, calm)
    THEN [percentage |-> Finite(0, 1), interpolated |-> FALSE]
    ELSE IF float_ge(ratio, stress)
    THEN [percentage |-> Finite(100, 1), interpolated |-> FALSE]
    ELSE [percentage |-> float_mul(float_div(float_sub(ratio, calm),
                                             float_sub(stress, calm)), 100),
          interpolated |-> TRUE]

\* the finite thresholds and ratios tried: the defaults of both classifiers,
\* small values around them and the ends of the range
Floats ==
    {Finite(n, 1) : n \in {-MaxFloat, -1, 0, 1, 2, 3, MaxFloat}}
        \cup {Finite(1, 2), Finite(3, 2)}

Others ==
    UNCHANGED <<env, sender, transport, data_buffer, results_queue, analyses,
                since_pass, valid_at_full, clients, conn, bpc, data, pending,
                delivered, forwarded, forward_errors, ws_server, forward_socket,
                udp_client, blink_call, headset, last>>

\* get_tiredness_percentage normalises the ratio it computed
NormaliseTiredness ==
    /\ ramp_call.of = "tiredness"
    /\ LET r == tiredness_ramp(ramp_call.ratio, ramp_call.low, ramp_call.high)
       IN  ramp_call' = [ramp_call EXCEPT !.called = TRUE,
                                          !.percentage = r.percentage,
                                          !.interpolated = r.interpolated]
    /\ Others

\* get_stress_percentage normalises the ratio it computed
NormaliseStress ==
    /\ ramp_call.of = "stress"
    /\ LET r == stress_ramp(ramp_call.ratio, ramp_call.low, ramp_call.high)
       IN  ramp_call' = [ramp_call EXCEPT !.called = TRUE,
                                          !.percentage = r.percentage,
                                          !.interpolated = r.interpolated]
    /\ Others

(* RampSpec: the ramp normalisation of either classifier, constructed with   *)
(* any two of the thresholds tried and given any of the ratios tried.        *)
InitRamp ==
    /\ Started
    /\ env.signal = "zero"
    /\ env.psd_welch
    /\ blink_call = NoCall
    /\ headset = EEGHeadset
    /\ \E of \in {"tiredness", "stress"}, ratio \in Floats, low \in Floats,
          high \in Floats :
          ramp_call = [NoRamp EXCEPT !.of = of, !.ratio = ratio, !.low = low,
                                     !.high = high]

NextRamp ==
    \/ NormaliseTiredness
    \/ NormaliseStress

RampSpec == InitRamp /\ [][NextRamp]_vars


\* ---------------------------------------------------------- EEG headset
(* eeg_headset.py.  The session calls connect, start_recording,              *)
(* stop_recording and disconnect one after the other on one thread; every    *)
(* device operation of a call may raise.  A collection thread is at the test *)
(* of its loop ("check"), in the body of the loop ("body") or ended          *)
(* ("dead"); it runs between any two steps of the session's thread.          *)
The_rest ==
    UNCHANGED <<env, sender, transport, data_buffer, results_queue, analyses,
                since_pass, valid_at_full, clients, conn, bpc, data, pending,
                delivered, forwarded, forward_errors, ws_server, forward_socket,
                udp_client, blink_call, ramp_call, last>>

\* threading.Thread.is_alive
is_alive(thread) == thread \in {"check", "body"}

\* connect: setup raises, or the headset is connected; an exception of
\* get_device_info afterwards changes the return value only
connect(h, setup) ==
    IF setup THEN [h EXCEPT !.is_connected = TRUE] ELSE h

\* start_recording, start_acquisition raising or not
start_recording(h, start_acquisition) ==
    IF ~h.is_connected THEN h
    ELSE IF h.is_recording THEN h
    ELSE IF ~start_acquisition THEN h
    ELSE IF ~h.viz_active
         THEN [h EXCEPT !.is_recording = TRUE, !.viz_active = TRUE,
                        !.threads = Append(h.threads, "check")]
         ELSE [h EXCEPT !.is_recording = TRUE]

\* stop_recording, one of get_mne, save and stop_acquisition raising or none
stop_recording(h, saved) ==
    IF ~h.is_recording THEN h
    ELSE IF ~saved THEN h
    ELSE [h EXCEPT !.is_recording = FALSE]

\* a call is made by the session when no call is under way
Call ==
    /\ headset.pc = "idle"
    /\ headset.calls < MaxCalls

Called(h) == [h EXCEPT !.calls = h.calls + 1]

HeadsetConnect ==
    /\ Call
    /\ \E setup \in BOOLEAN : headset' = Called(connect(headset, setup))
    /\ The_rest

StartRecording ==
    /\ Call
    /\ \E start_acquisition \in BOOLEAN :
          headset' = Called(start_recording(headset, start_acquisition))
    /\ The_rest

StopRecording ==
    /\ Call
    /\ \E saved \in BOOLEAN : headset' = Called(stop_recording(headset, saved))
    /\ The_rest

\* disconnect up to the join: nothing when not connected; else the
\* recording is stopped if there is one and the collection is told to end
DisconnectBegin ==
    /\ Call
    /\ \E saved \in BOOLEAN :
          headset' =
             Called(IF ~headset.is_connected THEN headset
                    ELSE [stop_recording(headset, saved)
                             EXCEPT !.viz_active = FALSE, !.pc = "join"])
    /\ The_rest

\* the thread started last is not alive, or join returns because it ended
JoinEnded ==
    /\ headset.pc = "join"
    /\ \/ headset.threads = <<>>
       \/ /\ headset.threads # <<>>
          /\ ~is_alive(headset.threads[Len(headset.threads)])
    /\ headset' = [headset EXCEPT !.pc = "disconnect"]
    /\ The_rest

\* join(timeout=1.0) returns while the thread is still alive
JoinTimeout ==
    /\ headset.pc = "join"
    /\ headset.threads # <<>>
    /\ is_alive(headset.threads[Len(headset.threads)])
    /\ headset' = [headset EXCEPT !.pc = "disconnect"]
    /\ The_rest

\* disconnect after the join: the manager disconnects, or raises
DisconnectEnd ==
    /\ headset.pc = "disconnect"
    /\ \E disconnected \in BOOLEAN :
          headset' = [headset EXCEPT !.pc = "idle",
                                     !.is_connected = IF disconnected THEN FALSE
                                                      ELSE @]
    /\ The_rest

\* _collect_data: the test of the loop
CollectCheck(i) ==
    /\ i \in DOMAIN headset.threads
    /\ headset.threads[i] = "check"
    /\ headset' = [headset EXCEPT
                     !.threads[i] = IF headset.viz_active /\ headset.is_connected
                                    THEN "body" ELSE "dead"]
    /\ The_rest

\* _collect_data: one pass of the body, the sleep included
CollectBody(i) ==
    /\ i \in DOMAIN headset.threads
    /\ headset.threads[i] = "body"
    /\ headset' = [headset EXCEPT !.threads[i] = "check"]
    /\ The_rest

(* HeadsetSpec: a session of at most MaxCalls calls on one EEGHeadset, with  *)
(* every outcome of the device operations and every interleaving of the      *)
(* collection threads.                                                       *)
InitHeadset ==
    /\ Started
    /\ env.signal = "zero"
    /\ env.psd_welch
    /\ blink_call = NoCall
    /\ ramp_call = NoRamp
    /\ headset = EEGHeadset

NextHeadset ==
    \/ HeadsetConnect
    \/ StartRecording
    \/ StopRecording
    \/ DisconnectBegin
    \/ JoinEnded
    \/ JoinTimeout
    \/ DisconnectEnd
    \/ \E i \in 1..MaxCalls : CollectCheck(i) \/ CollectBody(i)

HeadsetSpec == InitHeadset /\ [][NextHeadset]_vars


\* ================================================================ claims
\* The column the sender streamed as sample number t.
StreamColumn(t) ==
    [c \in Channels |-> IF t = sender.nan_at /\ c = sender.nan_ch THEN NaN
                        ELSE SampleValue(env.signal, c, t)]

(* C1.  The buffer never holds more than buffer_size samples, and after      *)
(* sender.sent samples were pushed it holds exactly the last                  *)
(* min(sender.sent, buffer_size) of them, oldest first.                       *)
C1_BufferHoldsLastCapacity ==
    LET n == Min(sender.sent, buffer_size)
    IN  /\ Len(data_buffer) <= buffer_size
        /\ Len(data_buffer) = n
        /\ \A j \in 1..n : data_buffer[j] = StreamColumn(sender.sent - n + j)

\* C1 witness: a signal whose samples differ, with two samples already evicted
C1_Evicted ==
    /\ env.signal = "sig"
    /\ sender.sent >= buffer_size + 2
    /\ Len(data_buffer) = buffer_size

(* C2 as stated.  After the first pass, a datagram that carries samples runs *)
(* a pass only when at least analysis_samples samples were pushed since the  *)
(* previous pass.                                                            *)
C2_PassPerInterval ==
    [][(last'.op = "datagram" /\ last'.passes > 0 /\ last'.samples >= 1 /\ analyses > 0)
         => since_pass + last'.samples >= analysis_samples]_vars

(* C2 amended.  Every datagram that is decoded while the buffer is at         *)
(* capacity after it enqueues exactly one result, whatever number of samples *)
(* it carries, and every other datagram enqueues none.                       *)
C2_PassPerValidDatagram ==
    [][last'.op = "datagram"
         => /\ Len(results_queue') - Len(results_queue) =
                 (IF last'.valid /\ Len(data_buffer') >= buffer_size THEN 1 ELSE 0)
            /\ analyses' - analyses = Len(results_queue') - Len(results_queue)]_vars

\* C2 witness: a second pass run by a datagram of fewer samples than one interval
C2_ShortDatagramAnalysed ==
    /\ last.op = "datagram"
    /\ last.passes = 1
    /\ last.samples >= 1
    /\ last.samples < analysis_samples
    /\ analyses >= 2

(* C3.  While fewer than buffer_size samples have been pushed, no pass has   *)
(* run and no result has been enqueued, dequeued or sent.                    *)
C3_NoPassBeforeFull ==
    sender.sent < buffer_size
        => /\ analyses = 0
           /\ results_queue = <<>>
           /\ data = NoData
           /\ forwarded = 0

\* C3 witness: a datagram was appended and the buffer is one sample short
C3_OneShort ==
    /\ sender.sent = buffer_size - 1
    /\ last.op = "datagram"
    /\ last.valid
    /\ last.samples >= 1

\* the datagrams of one analysis interval that fill the buffer
PacketsToFill == BUFFER_DURATION_SEC \div ANALYSIS_INTERVAL_SEC

(* C4.  With a silent headset and one analysis interval per datagram, the    *)
(* first PacketsToFill - 1 datagrams run no pass, and the next one runs      *)
(* exactly one, whose result is: not blinking, tiredness 0.0 with ratio 0.0, *)
(* stress 0.0 with ratio 0.0, attention 50.0.                                *)
C4_SilentEndToEnd ==
    (env.signal = "zero" /\ sender.regular)
        => /\ sender.packets < PacketsToFill
                => (analyses = 0 /\ results_queue = <<>> /\ forwarded = 0)
           /\ sender.packets = PacketsToFill => analyses = 1
           /\ (sender.packets = PacketsToFill /\ last.op = "datagram")
                => /\ Len(results_queue) = 1
                   /\ results_queue[1].is_blinking = FALSE
                   /\ results_queue[1].tiredness = [percentage |-> 0, ratio |-> 0]
                   /\ results_queue[1].stress = [percentage |-> 0, ratio |-> 0]
                   /\ results_queue[1].attention = [percentage |-> 5000]

\* C4 witness: the datagram that fills the buffer has just been handled
C4_FifthPacket ==
    /\ env.signal = "zero"
    /\ env.psd_welch
    /\ sender.regular
    /\ sender.packets = PacketsToFill
    /\ last.op = "datagram"

(* C5.  A datagram whose byte length is not a multiple of CHANNELS * 8       *)
(* leaves the handler without an exception, with the buffer and the queue as *)
(* they were and no pass run.                                                *)
C5_MalformedDiscarded ==
    [][(last'.op = "datagram" /\ ~last'.sized)
         => /\ ~last'.escaped
            /\ ~last'.valid
            /\ data_buffer' = data_buffer
            /\ results_queue' = results_queue
            /\ analyses' = analyses]_vars

\* C5 witness: a malformed datagram was handled while the buffer was full
C5_MalformedAtFull ==
    /\ last.op = "datagram"
    /\ ~last.sized
    /\ Len(data_buffer) = buffer_size
    /\ analyses >= 1


(* C6 as stated.  No sample in the buffer is NaN: a datagram that carries a  *)
(* NaN is discarded.                                                         *)
C6_NoNaNInBuffer ==
    \A j \in DOMAIN data_buffer : \A c \in Channels : ~IsNaN(data_buffer[j][c])

(* C7.  No datagram makes an exception leave datagram_received or closes the *)
(* endpoint, and every datagram of a whole number of samples is appended     *)
(* and, with the buffer at capacity, analysed: whatever happened before.     *)
C7_ReceptionGoesOn ==
    [][last'.op = "datagram"
         => /\ ~last'.escaped
            /\ transport' = "open"
            /\ last'.sized
                 => /\ last'.valid
                    /\ Len(data_buffer') = Min(Len(data_buffer) + last'.samples, buffer_size)
                    /\ Len(data_buffer') >= buffer_size
                         => (last'.passes = 1 /\ Len(results_queue') = Len(results_queue) + 1)]_vars

\* C7 witness: a datagram is appended and analysed after a pass in which the
\* blink, tiredness and stress classifiers all raised
C7_AnalysedAfterFailures ==
    /\ last.op = "datagram"
    /\ last.valid
    /\ last.passes = 1
    /\ ~env.psd_welch
    /\ analyses >= 2

ResultKeys == {"timestamp", "is_blinking", "tiredness", "stress", "attention"}

Complete(r) ==
    /\ DOMAIN r = ResultKeys
    /\ r.is_blinking \in BOOLEAN
    /\ DOMAIN r.tiredness = {"percentage", "ratio"}
    /\ DOMAIN r.stress = {"percentage", "ratio"}
    /\ DOMAIN r.attention = {"percentage"}

(* C8.  Every result on the queue has every field, whichever classifiers     *)
(* raised, and every pass has put exactly one result on the queue: the       *)
(* results not yet dequeued are those of the passes after the last dequeued  *)
(* one, in order.                                                            *)
C8_CompleteResultPerPass ==
    /\ \A i \in DOMAIN results_queue : Complete(results_queue[i])
    /\ Len(results_queue) + forwarded = analyses
    /\ \A i \in DOMAIN results_queue : results_queue[i].timestamp = forwarded + i

\* C8 witness: two results of passes in which three classifiers raised
C8_TwoResultsAfterFailures ==
    /\ ~env.psd_welch
    /\ Len(results_queue) >= 2

(* C9.  The result of a pass carries, for each classifier, its default when  *)
(* that classifier raised (not blinking; tiredness and stress 0.0 with ratio *)
(* 0.0; attention 0.0) and otherwise the rounded value the classifier        *)
(* returns for its window of the analysed buffer, whatever the others did.   *)
C9_IndicatorsIndependent ==
    (last.op = "datagram" /\ last.passes = 1)
        => /\ Len(results_queue) >= 1
           /\ LET r == results_queue[Len(results_queue)]
                  M == np_buffer(data_buffer)
                  blink == detect_blink_in_chunk(Trailing(M, blink_window_samples),
                                                 analysis_samples)
                  tired == get_tiredness_percentage(Trailing(M, tiredness_samples), env)
                  stress == get_stress_percentage(Trailing(M, stress_samples), env)
                  attention == get_attention_percentage(M)
              IN  /\ r.timestamp = analyses
                  /\ DOMAIN r = ResultKeys
                  /\ r.is_blinking = (IF blink.raised THEN FALSE ELSE blink.value)
                  /\ r.tiredness =
                       (IF tired.raised THEN [percentage |-> 0, ratio |-> 0]
                        ELSE [percentage |-> round(tired.percentage, 100),
                              ratio |-> round(tired.ratio, 1000)])
                  /\ r.stress =
                       (IF stress.raised THEN [percentage |-> 0, ratio |-> 0]
                        ELSE [percentage |-> round(stress.percentage, 100),
                              ratio |-> round(stress.ratio, 1000)])
                  /\ r.attention =
                       (IF attention.raised THEN [percentage |-> 0]
                        ELSE [percentage |-> round(attention.percentage, 100)])

\* C9 witness: the blink classifier raised and the tiredness of the same
\* result is a computed value strictly between 0 and 100
C9_BlinkFailedOthersComputed ==
    /\ last.op = "datagram"
    /\ last.passes = 1
    /\ Len(results_queue) >= 1
    /\ detect_blink_in_chunk(Trailing(np_buffer(data_buffer), blink_window_samples),
                             analysis_samples).raised
    /\ results_queue[Len(results_queue)].tiredness.percentage > 0
    /\ results_queue[Len(results_queue)].tiredness.percentage < 10000

(* C10 as stated.  A failed send is caught: the gather never ends in an      *)
(* exception and the broadcaster never stops.                                *)
C10_SendFailureCaught == bpc \notin {"failed", "dead"}


(* C11.  While a send to a subscriber is pending, a datagram that arrives at *)
(* the open endpoint is handled: the event loop is receiving (the guard of   *)
(* the datagram steps holds), and a datagram handled in that state was       *)
(* appended and, with the buffer at capacity, analysed, the result of that   *)
(* pass being the last one on the queue.                                     *)
C11_ReceptionNotBlocked ==
    (bpc = "gather" /\ pending # {})
        => /\ transport = "open" => Receiving
           /\ last.op = "datagram"
              => /\ last.valid
                 /\ Len(data_buffer) = Min(sender.sent, buffer_size)
                 /\ Len(data_buffer) >= buffer_size
                      => /\ last.passes = 1
                         /\ results_queue # <<>>
                         /\ results_queue[Len(results_queue)].timestamp = analyses

\* C11 witness: a datagram was analysed and its result enqueued while a send
\* of an earlier result was still pending
C11_AnalysedDuringSend ==
    /\ last.op = "datagram"
    /\ last.passes = 1
    /\ bpc = "gather"
    /\ pending # {}
    /\ results_queue # <<>>
    /\ results_queue[Len(results_queue)].timestamp > data.timestamp


\* a published percentage (in hundredths) that is a number of [0, 100]
InRange(percentage) == ~IsNaN(percentage) /\ percentage >= 0 /\ percentage <= 10000

(* C12 as stated.  In every result on the queue the tiredness, stress and    *)
(* attention percentages are numbers of the closed range [0, 100].           *)
C12_PercentagesInRange ==
    \A i \in DOMAIN results_queue :
        /\ InRange(results_queue[i].tiredness.percentage)
        /\ InRange(results_queue[i].stress.percentage)
        /\ InRange(results_queue[i].attention.percentage)


\* the band powers the two classifiers find in the buffer as it is
TirednessPowers ==
    band_powers(pick_channels(Trailing(np_buffer(data_buffer), tiredness_samples),
                              tiredness_channels), env.occ, env.nanmean)

StressPowers ==
    band_powers(filter(pick_channels(Trailing(np_buffer(data_buffer), stress_samples),
                                     stress_channels)), env.front, env.nanmean)

Below(power) == ~IsNaN(power) /\ power < EPSILON

(* C13.  On a full buffer, when the beta power of the occipital channels is  *)
(* below 1e-12 get_tiredness_percentage returns exactly (0.0, 0.0), and when *)
(* the alpha power of the frontal channels is below 1e-12                    *)
(* get_stress_percentage returns exactly (0.0, 0.0), whatever the numerator  *)
(* band powers are.                                                          *)
C13_ZeroRatioGuard ==
    (Len(data_buffer) >= buffer_size /\ env.psd_welch)
        => /\ Below(TirednessPowers.beta)
                => get_tiredness_percentage(
                       Trailing(np_buffer(data_buffer), tiredness_samples), env)
                   = Returned(Frac(0, 1), Frac(0, 1))
           /\ Below(StressPowers.alpha)
                => get_stress_percentage(
                       Trailing(np_buffer(data_buffer), stress_samples), env)
                   = Returned(Frac(0, 1), Frac(0, 1))

\* C13 witness: a pass on a signal whose frontal alpha power is below 1e-12
\* and whose beta power is not, with stress published as 0.0 with ratio 0.0
C13_GuardedWithNumerator ==
    /\ last.op = "datagram"
    /\ last.passes = 1
    /\ env.psd_welch
    /\ Below(StressPowers.alpha)
    /\ StressPowers.beta >= EPSILON
    /\ results_queue # <<>>
    /\ results_queue[Len(results_queue)].stress = [percentage |-> 0, ratio |-> 0]


EqF(x, y) == ~IsNaNF(x) /\ ~IsNaNF(y) /\ x[1] * y[2] = y[1] * x[2]

\* the spectra tried on the ramps: every band at or above the guards
RampSpectra ==
    { [alpha |-> EPSILON * a, theta |-> EPSILON * a, beta |-> EPSILON * b] :
        a \in 1..MaxLevel, b \in 1..MaxLevel }

\* what the classifiers return for the buffer as it is, were its spectrum sp
TirednessOf(sp) ==
    get_tiredness_percentage(Trailing(np_buffer(data_buffer), tiredness_samples),
                             [env EXCEPT !.occ = sp])

StressOf(sp) ==
    get_stress_percentage(Trailing(np_buffer(data_buffer), stress_samples),
                          [env EXCEPT !.front = sp])

\* a returned (percentage, ratio) on the ramp from low to high: the ratio is
\* the expected one, the percentage 0 up to low, 100 from high on, and in
\* between such that percentage * (high - low) = (ratio - low) * 100
OnRamp(r, ratio, low, high) ==
    /\ ~r.raised
    /\ EqF(r.ratio, ratio)
    /\ LeqF(ratio, low) => EqF(r.percentage, Frac(0, 1))
    /\ GeqF(ratio, high) => EqF(r.percentage, Frac(100, 1))
    /\ (~LeqF(ratio, low) /\ ~GeqF(ratio, high))
         => r.percentage[1] * (high[1] * low[2] - low[1] * high[2]) * ratio[2]
            = 100 * (ratio[1] * low[2] - low[1] * ratio[2]) * r.percentage[2] * high[2]
    /\ 2 * ratio[1] * low[2] * high[2] = ratio[2] * (low[1] * high[2] + high[1] * low[2])
         => EqF(r.percentage, Frac(50, 1))

C15_BlinkDetectorAnswers ==
    (last.op = "datagram" /\ last.passes = 1)
        => ~detect_blink_in_chunk(Trailing(np_buffer(data_buffer), blink_window_samples),
                                  analysis_samples).raised

(* C16 as stated.  Called with a window of W <= analysis_samples samples,    *)
(* the blink detector fails instead of returning a boolean.                  *)
C16_ShortWindowRefused ==
    Len(data_buffer) >= buffer_size
        => \A W \in 1..analysis_samples :
              models_detect_blink_in_chunk(Trailing(np_buffer(data_buffer), W),
                                           analysis_samples).raised


\* channel lists a classifier may be configured with
ChannelConfigs == { <<"Fp1", "Fp2">>, <<"Fp1", "Fz">>, <<"Cz">> }

Absent(name) == \A c \in Channels : ch_names[c] # name

(* C17 as stated.  The endpoint is open for datagrams only in a session in   *)
(* which constructing a classifier with a channel name that is not one of    *)
(* ch_names fails.                                                           *)
C17_AbsentChannelRefused ==
    transport = "open"
        => \A channels \in ChannelConfigs :
              (\E k \in DOMAIN channels : Absent(channels[k]))
                  => StressClassifier(SAMPLING_RATE, channels).raised


\* the columns of the samples the last datagram carried, oldest first
Pushed == [j \in 1..last.samples |-> StreamColumn(sender.sent - last.samples + j)]

(* C18.  A pass leaves the buffer as the pushes of its datagram left it: the *)
(* buffer after a datagram that was analysed is the last buffer_size columns *)
(* of what the buffer held before followed by the columns pushed, and the    *)
(* result of the pass is what the classifiers return for a copy of exactly   *)
(* that buffer.                                                              *)
C18_SnapshotAndFrame ==
    [][(last'.op = "datagram" /\ last'.passes = 1)
         => /\ data_buffer' = LastN(data_buffer \o Pushed', buffer_size)
            /\ Len(data_buffer') = buffer_size
            /\ results_queue' =
                 run_analysis_try(data_buffer', results_queue, analyses', env).queue]_vars

\* C18 witness: a second pass, on a buffer from which the pushes of its
\* datagram evicted samples that the first pass analysed
C18_SecondPassAfterEviction ==
    /\ last.op = "datagram"
    /\ last.passes = 1
    /\ last.samples >= 1
    /\ analyses >= 2
    /\ env.signal = "sig"
    /\ Len(data_buffer) = buffer_size


\* the stream position a buffered column of a recorded signal carries on Fp2,
\* a channel on which the sender puts no NaN
Position(column) == (column[ChannelIndex("Fp2")] - ChannelIndex("Fp2")) \div 10

(* C19.  The buffer of a recorded signal holds consecutive samples of the    *)
(* stream in arrival order, up to the one sent last: every column is the     *)
(* stream's next sample after the column before it, across datagrams and     *)
(* within each, with none twice and none missing.                            *)
C19_ArrivalOrder ==
    (env.signal = "sig" /\ data_buffer # <<>>)
        => /\ \A j \in 1..(Len(data_buffer) - 1) :
                Position(data_buffer[j + 1]) = Position(data_buffer[j]) + 1
           /\ Position(data_buffer[Len(data_buffer)]) = sender.sent

\* C19 witness: a datagram of several samples was appended after earlier
\* datagrams to a buffer that was already full
C19_SecondLongDatagram ==
    /\ env.signal = "sig"
    /\ last.op = "datagram"
    /\ last.samples >= 2
    /\ sender.sent >= buffer_size + last.samples
    /\ Len(data_buffer) = buffer_size

(* C20.  After a datagram of S samples is decoded, the value at the 0-based  *)
(* flat index c * S + i of what the sender serialised is channel c of the    *)
(* i-th column the datagram appended, for every channel c and every i < S.   *)
C20_ChannelMajor ==
    (last.op = "datagram" /\ last.valid /\ last.samples <= buffer_size)
        => LET S == last.samples
               sent == tobytes([c \in Channels |-> [i \in 1..S |-> Pushed[i][c]]], S)
           IN  \A c \in 0..(CHANNELS - 1) : \A i \in 0..(S - 1) :
                  data_buffer[Len(data_buffer) - S + i + 1][c + 1] = sent[c * S + i + 1]

\* C20 witness: a datagram of three samples or more of a recorded signal, the
\* first of them NaN on one channel, was decoded
C20_LongDatagramDecoded ==
    /\ env.signal = "sig"
    /\ last.op = "datagram"
    /\ last.valid
    /\ last.samples >= 3
    /\ sender.nan_at = sender.sent - last.samples + 1


\* the most recent n samples of the stream, one row per channel
Recent(n) ==
    [c \in Channels |-> [j \in 1..n |-> StreamColumn(sender.sent - n + j)[c]]]

(* C21.  When a pass has run, its snapshot holds exactly buffer_size         *)
(* samples, the most recent of the stream; the blink detector's window is    *)
(* the most recent BLINK_WINDOW_SEC seconds of them, the tiredness and the   *)
(* stress chunks the most recent TIREDNESS_WINDOW_SEC and STRESS_WINDOW_SEC  *)
(* seconds, each of full length, and attention is given the whole snapshot.  *)
C21_Windows ==
    (last.op = "datagram" /\ last.passes = 1)
        => LET M == np_buffer(data_buffer)
           IN  /\ Len(data_buffer) = buffer_size
               /\ M = Recent(buffer_size)
               /\ blink_data_window(M) = Recent(BLINK_WINDOW_SEC * SAMPLING_RATE)
               /\ tiredness_data_chunk(M) = Recent(TIREDNESS_WINDOW_SEC * SAMPLING_RATE)
               /\ stress_data_chunk(M) = Recent(STRESS_WINDOW_SEC * SAMPLING_RATE)

\* C21 witness: a pass on a snapshot that holds a NaN older than the blink
\* detector's window
C21_NaNOutsideBlinkWindow ==
    /\ last.op = "datagram"
    /\ last.passes = 1
    /\ env.signal = "sig"
    /\ sender.nan_at > sender.sent - buffer_size
    /\ sender.nan_at <= sender.sent - blink_window_samples


(* C22 as stated.  No NaN leaves the band-power step: the percentage and the *)
(* ratio of tiredness and of stress are finite numbers in every result on    *)
(* the queue.                                                                *)
C22_FinitePublished ==
    \A i \in DOMAIN results_queue :
        /\ ~IsNaN(results_queue[i].tiredness.percentage)
        /\ ~IsNaN(results_queue[i].tiredness.ratio)
        /\ ~IsNaN(results_queue[i].stress.percentage)
        /\ ~IsNaN(results_queue[i].stress.ratio)


(* C23.  The attention classifier returns (50.0, 0.0) for the buffer as it   *)
(* is, whatever it holds, and never raises; every result on the queue        *)
(* carries attention.percentage = 50.0.                                      *)
C23_AttentionPlaceholder ==
    /\ LET r == get_attention_percentage(np_buffer(data_buffer))
       IN  /\ ~r.raised
           /\ EqF(r.percentage, Frac(50, 1))
           /\ EqF(r.ratio, Frac(0, 1))
    /\ \A i \in DOMAIN results_queue : results_queue[i].attention.percentage = 5000

\* C23 witness: a result of a pass on a buffer that holds a NaN, with a NaN
\* stress percentage next to the attention value
C23_AttentionBesideNaN ==
    /\ last.op = "datagram"
    /\ last.passes = 1
    /\ sender.nan_at > sender.sent - buffer_size
    /\ IsNaN(results_queue[Len(results_queue)].stress.percentage)
    /\ results_queue[Len(results_queue)].attention.percentage = 5000


(* C24.  A pass puts its result on the queue once, behind the results        *)
(* already there; the broadcaster takes the oldest result off the queue, and *)
(* what it has taken is on the queue no more; the sends of a result go to    *)
(* the subscribers registered when it was taken, so that a websocket that    *)
(* connects afterwards is sent only results taken after it connected; what   *)
(* a subscriber receives and what is forwarded never goes back in time.      *)
C24_OnceInOrder ==
    [][ /\ \A i \in 1..(Len(results_queue') - 1) :
              results_queue'[i].timestamp < results_queue'[i + 1].timestamp
        /\ \A i \in DOMAIN results_queue' :
              /\ results_queue'[i].timestamp > data'.timestamp
              /\ results_queue'[i].timestamp > forwarded'
              /\ \A c \in ClientIds : results_queue'[i].timestamp > delivered'[c]
        /\ (last'.op = "datagram" /\ last'.passes = 1)
              => /\ Len(results_queue') = Len(results_queue) + 1
                 /\ SubSeq(results_queue', 1, Len(results_queue)) = results_queue
                 /\ results_queue'[Len(results_queue')].timestamp = analyses'
                 /\ analyses' = analyses + 1
        /\ ~(last'.op = "datagram" /\ last'.passes = 1)
              => \/ results_queue' = results_queue
                 \/ /\ last'.op = "get"
                    /\ results_queue # <<>>
                    /\ results_queue' = Tail(results_queue)
                    /\ \/ data' = Head(results_queue) /\ pending' = clients
                       \/ forwarded' = Head(results_queue).timestamp
        /\ forwarded' >= forwarded
        /\ \A c \in ClientIds :
              /\ delivered'[c] >= delivered[c]
              /\ delivered'[c] # delivered[c]
                    => c \in pending /\ delivered'[c] = data.timestamp
              /\ conn[c] = "none" => c \notin pending'
        /\ pending' \subseteq pending \/ last'.op = "get"
      ]_vars

\* C24 witness: a broadcast has just ended; one subscriber received the
\* result, another one, connected while it was being sent, received nothing
C24_LateSubscriberSkipped ==
    /\ last.op = "forward"
    /\ forwarded >= 1
    /\ \E c, d \in ClientIds :
          /\ c \in clients /\ conn[c] = "open" /\ delivered[c] = 0
          /\ delivered[d] = forwarded


(* C25.  The client socket has a timeout, so that no iteration of the        *)
(* receive loop stays in recvfrom.  An iteration in which nothing arrives    *)
(* leaves data_buffer and collected_measurements as they were and the loop   *)
(* running, at its head; an iteration in which a datagram arrives adds the   *)
(* datagram's bytes to what the script holds, whatever timed out before.     *)
C25_TimeoutRetries ==
    [][ /\ client_socket.timeout # <<>>
        /\ udp_client'.pc # "recvfrom"
        /\ udp_client'.op = "silence"
              => /\ udp_client'.data_buffer = udp_client.data_buffer
                 /\ udp_client'.collected_measurements = udp_client.collected_measurements
                 /\ udp_client'.is_running
                 /\ udp_client'.pc = "loop"
        /\ udp_client'.op = "data"
              => Len(udp_client'.data_buffer)
                   + REQUIRED_BYTES_FOR_ARRAY * Len(udp_client'.collected_measurements)
                 = udp_client'.received
      ]_vars

\* C25 witness: one of the first three reads timed out, and the datagram of
\* the third completed the first array
C25_ArrayAfterTimeout ==
    /\ udp_client.op = "data"
    /\ udp_client.timeouts >= 1
    /\ udp_client.reads = 3
    /\ Len(udp_client.collected_measurements) = 1
    /\ udp_client.received = REQUIRED_BYTES_FOR_ARRAY


(* C26.  Once main_async has left (the program was stopped, or the           *)
(* broadcaster task ended and took it down), the UDP endpoint, the WebSocket *)
(* server and the forwarding socket are closed; from then on no sample is    *)
(* pushed into the buffer, no pass runs, no result is put on the queue or    *)
(* taken off it, nothing is sent to a subscriber or forwarded, and no        *)
(* websocket connects.                                                       *)
C26_TeardownIsFinal ==
    [][ /\ bpc' \in {"dead", "cancelled"}
              => /\ transport' = "closed"
                 /\ ws_server' = "closed"
                 /\ forward_socket' = "closed"
                 /\ pending' = {}
                 /\ \A c \in ClientIds : conn'[c] # "open"
        /\ bpc \in {"dead", "cancelled"}
              => /\ bpc' = bpc
                 /\ data_buffer' = data_buffer
                 /\ sender' = sender
                 /\ analyses' = analyses
                 /\ results_queue' = results_queue
                 /\ delivered' = delivered
                 /\ forwarded' = forwarded
                 /\ clients' \subseteq clients
      ]_vars

\* C26 witness: the program was stopped with a full buffer, a result on the
\* queue and a subscriber connected; the subscriber's handler has since
\* removed it, and the result is still on the queue
C26_StoppedWithResultQueued ==
    /\ bpc = "cancelled"
    /\ last.op = "unregister"
    /\ transport = "closed"
    /\ Len(data_buffer) = buffer_size
    /\ results_queue # <<>>
    /\ forwarded = 0
    /\ \A c \in ClientIds : delivered[c] = 0


(* C27.  For every window of W samples cut from the end of the buffer and    *)
(* every keep_samples with W > keep_samples >= 1, the centred segment is     *)
(* samples [m, m + keep_samples) of the window, m = (W - keep_samples) // 2: *)
(* it has keep_samples samples, m >= 0 and m + keep_samples <= W.  For the   *)
(* window of the blink detector (3 s) and one analysis interval (1 s) the    *)
(* margin is one interval; for W = 750 and keep_samples = 250 it is 250.     *)
C27_CentredSegment ==
    /\ margin(750, 250) = 250
    /\ margin(blink_window_samples, analysis_samples) = analysis_samples
    /\ LET channel_data_uv == np_buffer(data_buffer)[ChannelIndex("Fp1")]
       IN  \A W \in 2..Len(data_buffer) : \A keep_samples \in 1..(W - 1) :
              LET window == LastN(channel_data_uv, W)
                  m == (W - keep_samples) \div 2
                  segment == central_data(window, keep_samples)
              IN  /\ margin(W, keep_samples) = m
                  /\ m >= 0
                  /\ m + keep_samples <= W
                  /\ Len(segment) = keep_samples
                  /\ \A j \in 1..keep_samples : segment[j] = window[m + j]

\* C27 witness: a pass on a full buffer of distinct samples, where the centred
\* second of the blink detector's window starts one second into the window
C27_MiddleSecond ==
    /\ last.op = "datagram"
    /\ last.passes = 1
    /\ env.signal = "sig"
    /\ sender.nan_at = 0
    /\ central_data(blink_data_window(np_buffer(data_buffer))[ChannelIndex("Fp1")],
                    analysis_samples)[1]
         = StreamColumn(sender.sent - blink_window_samples + analysis_samples + 1)
              [ChannelIndex("Fp1")]


(* C28 as stated.  A datagram that pushes no sample into the buffer runs no  *)
(* pass and enqueues no result.                                              *)
C28_NoPassWithoutSample ==
    [][(last'.op = "datagram" /\ last'.samples = 0)
         => /\ analyses' = analyses
            /\ results_queue' = results_queue]_vars


(* C29.  A datagram runs at most one pass and enqueues at most one result.   *)
(* When it runs one, every sample it carried that the buffer has room for is *)
(* in the buffer, newest last, and the result enqueued is the one the        *)
(* classifiers give for the buffer that holds them all, also when the        *)
(* datagram carried more samples than the buffer holds.                      *)
C29_PassAfterWholePacket ==
    [][last'.op = "datagram"
         => /\ analyses' - analyses \in {0, 1}
            /\ Len(results_queue') - Len(results_queue) = analyses' - analyses
            /\ last'.passes = analyses' - analyses
            /\ last'.passes = 1
                  => /\ LastN(data_buffer', Min(last'.samples, buffer_size))
                          = LastN(Pushed', Min(last'.samples, buffer_size))
                     /\ results_queue'
                          = run_analysis_try(data_buffer', results_queue, analyses',
                                             env).queue]_vars

\* C29 witness: a pass run by a datagram of more samples than the buffer
\* holds, whose first sample, a NaN, is not among those analysed
C29_LongPacketAnalysedWhole ==
    /\ last.op = "datagram"
    /\ last.passes = 1
    /\ last.samples > buffer_size
    /\ env.signal = "sig"
    /\ sender.nan_at = sender.sent - last.samples + 1
    /\ ~IsNaN(results_queue[Len(results_queue)].stress.percentage)
    /\ ~IsNaN(results_queue[Len(results_queue)].tiredness.percentage)


(* C30.  With no subscriber, the results taken off the queue so far are the  *)
(* first `forwarded` ones; together with those still on the queue they are   *)
(* as many as the datagrams that were decoded and appended with the buffer   *)
(* at capacity afterwards.  The length of the buffer never decreases, and a  *)
(* buffer at capacity stays at capacity.                                     *)
C30_ResultsCountValidPackets ==
    [][ /\ Len(results_queue') + forwarded' = valid_at_full'
        /\ analyses' = valid_at_full'
        /\ Len(data_buffer') >= Len(data_buffer)
        /\ Len(data_buffer') <= buffer_size
        /\ Len(data_buffer) = buffer_size => Len(data_buffer') = buffer_size
      ]_vars

\* C30 witness: the buffer is full, two datagrams have been analysed, one
\* result has been taken off the queue, and a damaged datagram has just been
\* dropped without a result
C30_DamagedAmongAnalysed ==
    /\ last.op = "datagram"
    /\ ~last.valid
    /\ Len(data_buffer) = buffer_size
    /\ valid_at_full = 2
    /\ forwarded = 1
    /\ Len(results_queue) = 1


\* result number t is on the queue
Queued(t) == \E i \in DOMAIN results_queue : results_queue[i].timestamp = t

(* C31 as stated.  Unless the program is stopped, every result that is on    *)
(* the queue is eventually taken off it by the broadcaster.                  *)
C31_EveryResultDispatched ==
    \A t \in 1..MaxAnalyses : Queued(t) ~> (~Queued(t) \/ bpc = "cancelled")


(* C32 as stated.  The subscriber set is the set of the websockets whose     *)
(* connection is open.                                                       *)
C32_SubscribersAreOpen ==
    clients = {c \in ClientIds : conn[c] = "open"}

(* C32 amended.  Every open websocket is a subscriber, and a subscriber is a *)
(* websocket that is open or whose connection has closed while its handler   *)
(* has not run yet.  A websocket becomes a subscriber only in the step in    *)
(* which it connects and stops being one only in the step in which its       *)
(* handler ends, after which it never is one again.  The sends of a          *)
(* broadcast are started for the subscribers of that moment only: a          *)
(* websocket removed before is not among them.                               *)
C32_SubscribersAreHandled ==
    [][ /\ \A c \in ClientIds :
              /\ conn'[c] = "open" => c \in clients'
              /\ c \in clients' => conn'[c] \in {"open", "closed"}
              /\ (c \notin clients /\ c \in clients')
                    => conn[c] = "none" /\ conn'[c] = "open"
              /\ (c \in clients /\ c \notin clients')
                    => conn[c] = "closed" /\ conn'[c] = "gone"
              /\ conn[c] = "gone" => conn'[c] = "gone" /\ c \notin clients'
              /\ (c \notin pending /\ c \in pending')
                    => c \in clients /\ last'.op = "get"
      ]_vars

\* C32 witness: the second result is being sent to a subscriber while the
\* websocket that received the first one has closed and been removed
C32_BroadcastAfterRemoval ==
    /\ bpc = "gather"
    /\ data.timestamp = 2
    /\ \E c, d \in ClientIds :
          /\ conn[c] = "gone" /\ delivered[c] = 1 /\ c \notin pending
          /\ d \in pending /\ conn[d] = "open"


(* C33.  A result is handed to the forwarding socket only after             *)
(* broadcast_data has returned for it: with subscribers, when none of its    *)
(* sends is pending any more; while it is being broadcast it has not been   *)
(* forwarded.  Results are forwarded one after the other, none skipped.  A   *)
(* forward that raises is caught and counted, and, like one that succeeds,   *)
(* leaves the broadcaster waiting for the next result.                       *)
C33_BroadcastThenForward ==
    [][ /\ bpc' = "gather" => forwarded' < data'.timestamp
        /\ forwarded' # forwarded
              => /\ bpc' = "get"
                 /\ forwarded' = forwarded + 1
                 /\ \/ /\ last'.op = "forward"
                       /\ bpc = "gather"
                       /\ pending = {}
                       /\ forwarded' = data.timestamp
                    \/ /\ last'.op = "get"
                       /\ clients = {}
                       /\ forwarded' = Head(results_queue).timestamp
                 /\ forward_errors' = forward_errors + (IF last'.ok THEN 0 ELSE 1)
        /\ forward_errors' # forward_errors => forwarded' # forwarded
      ]_vars

\* C33 witness: the forward of the first result raised, and the second result
\* has been sent to a subscriber and then forwarded
C33_ForwardedAfterFailedForward ==
    /\ last.op = "forward"
    /\ last.ok
    /\ forward_errors = 1
    /\ forwarded = 2
    /\ \E c \in ClientIds : delivered[c] = 2


(* C34.  What the blink detection returns for a segment and a threshold is   *)
(* what it returns for the same segment and threshold with every other       *)
(* refractory distance >= 1, and for either order of equal peaks.            *)
C34_RefractoryIrrelevant ==
    blink_call.called
        => \A d \in 1..(MaxDistance + 1) : \A later_first \in BOOLEAN :
              blink_in_segment(blink_call.central_data, blink_call.threshold_uv, d,
                               later_first)
                = blink_call.returned

\* C34 witness: a blink is reported for a segment in which the distance rule
\* removed a peak that passes the threshold
C34_PeakRemovedByDistance ==
    /\ blink_call.called
    /\ blink_call.returned
    /\ blink_call.refractory_samples = MaxDistance
    /\ LET x == [i \in DOMAIN blink_call.central_data |->
                    abs(blink_call.central_data[i])]
       IN  /\ Cardinality(find_peaks(x, blink_call.threshold_uv, 1,
                                     blink_call.later_first)) = 2
           /\ Cardinality(find_peaks(x, blink_call.threshold_uv, MaxDistance,
                                     blink_call.later_first)) = 1

\* a percentage between 0 and 100
Percentage(p) == p.kind = "finite" /\ 0 <= p.n /\ p.n <= 100 * p.d

\* what the normalisation returns for thresholds that leave no ramp
NoRampBetween ==
    float_ge(ramp_call.low, ramp_call.high)
        => /\ ~ramp_call.interpolated
           /\ ramp_call.percentage
                = IF float_le(ramp_call.ratio, ramp_call.low) THEN Finite(0, 1)
                  ELSE Finite(100, 1)

C36_RecordingImpliesConnected ==
    headset.is_recording => headset.is_connected

\* the collection threads alive
Alive == {i \in DOMAIN headset.threads : is_alive(headset.threads[i])}

(* C37.  At most one collection thread is alive at any time, for every       *)
(* sequence of calls and every interleaving with the loop of the thread.     *)
C37_OneCollectionThread ==
    Cardinality(Alive) <= 1

(* C38.  The bytes the client received are cut into consecutive frames of    *)
(* REQUIRED_BYTES_FOR_ARRAY bytes in arrival order: the k-th collected       *)
(* measurement is made of the k-th such run of the byte stream, number by    *)
(* number and row by row, and the bytes after the last frame are the byte    *)
(* buffer, so that each byte is in exactly one frame or still buffered.  The *)
(* measurements collected never exceed MEASUREMENTS_TO_PLOT, the loop is     *)
(* left exactly when that number is reached, and while it runs less than one *)
(* frame of bytes is left over after each iteration.                         *)
C38_FramesInArrivalOrder ==
    LET collected == udp_client.collected_measurements
        n == Len(collected)
    IN  /\ \A k \in 1..n, c \in Channels, i \in 1..SAMPLES_PER_CHANNEL,
              j \in 1..BYTES_PER_NUMBER :
              collected[k][c][i][j]
                = (k - 1) * REQUIRED_BYTES_FOR_ARRAY
                    + ((c - 1) * SAMPLES_PER_CHANNEL + (i - 1)) * BYTES_PER_NUMBER + j
        /\ \A k \in 1..n :
              /\ DOMAIN collected[k] = Channels
              /\ \A c \in Channels : Len(collected[k][c]) = SAMPLES_PER_CHANNEL
        /\ n * REQUIRED_BYTES_FOR_ARRAY <= udp_client.received
        /\ udp_client.data_buffer
              = Bytes(n * REQUIRED_BYTES_FOR_ARRAY,
                      udp_client.received - n * REQUIRED_BYTES_FOR_ARRAY)
        /\ n <= MEASUREMENTS_TO_PLOT
        /\ udp_client.is_running <=> n < MEASUREMENTS_TO_PLOT
        /\ udp_client.pc = "analysis" <=> n = MEASUREMENTS_TO_PLOT
        /\ udp_client.is_running
              => Len(udp_client.data_buffer) < REQUIRED_BYTES_FOR_ARRAY

\* C38 witness: the second datagram completed the first frame and left one
\* byte less than a frame, the loop still running
C38_FrameAcrossDatagrams ==
    /\ udp_client.op = "data"
    /\ udp_client.reads = 2
    /\ udp_client.timeouts = 0
    /\ udp_client.is_running
    /\ Len(udp_client.collected_measurements) = 1
    /\ Len(udp_client.data_buffer) = REQUIRED_BYTES_FOR_ARRAY - 1
    /\ udp_client.received > Len(udp_client.data_buffer) + REQUIRED_BYTES_FOR_ARRAY - 1

====
